---------------------------- MODULE Spec2Model ----------------------------
(***************************************************************************)
(* A model of resume-page (src/src/main.ts): the configuration             *)
(* normalization engine (normalizeConfig and its helpers) and the          *)
(* pagination planner (getPagedCuts).                                      *)
(*                                                                         *)
(* JavaScript values are modelled as tagged records (see "Values"),        *)
(* strings as TLA+ strings handled character by character.  TLA+ string    *)
(* literals are ASCII only, so the non-ASCII text of the source is written *)
(* with ASCII stand-ins, each named where it is introduced.                *)
(***************************************************************************)
EXTENDS Integers, Sequences, FiniteSets, TLC

VARIABLES
    totalHeightPx,   \* getPagedCuts: canvas height in pixels
    pageHeightPx,    \* getPagedCuts: page height in pixels
    safeCuts,        \* getPagedCuts: the sorted result of collectSafeCuts
    cursor,          \* getPagedCuts: local `cursor`
    segments,        \* getPagedCuts: local `segments`
    pagePc,          \* getPagedCuts: "idle" | "loop" | "done"
    orderInput,      \* normalizeOrder: the argument `order`
    orderOutput,     \* normalizeOrder: the returned array
    orderPc,         \* normalizeOrder: "idle" | "call" | "done"
    techInput,       \* normalizeTechStack: the argument `input`
    techOutput,      \* normalizeTechStack: the returned array
    techPc,          \* normalizeTechStack: "idle" | "call" | "done"
    raw,             \* normalizeConfig: the argument `raw`
    config,          \* normalizeConfig: the returned document
    configAgain,     \* normalizeConfig applied to `config`
    configPc,        \* "idle" | "call" | "returned" | "threw" | "again"
    exportPc,        \* exportResumePdf: where each invocation stands
    exportHosts,     \* the invocations whose host is attached to document.body
    exportLog,       \* the steps each invocation has completed, in order
    exportResult,    \* how each invocation's promise settled
    toasts,          \* the messages the download handler passed to showToast, in order
    loadQuery,       \* loadConfig: the `config` parameter of the URL query
    loadBase,        \* loadConfig: import.meta.env.BASE_URL
    loadEmbedded,    \* loadConfig: the text of the embedded resume.yml
    loadIndex,       \* loadConfig: index of the candidate of the next iteration
    loadTried,       \* loadConfig: the candidates fetched so far and what came back
    loadResult,      \* loadConfig: the value returned or the error thrown
    loadPc,          \* "idle" | "call" | "fetch" | "returned" | "threw"
    mdConfig,        \* generateMarkdown: the canonical document
    mdFallbackHtml,  \* what renderBasicEducationSection returned for it
    mdNow,           \* the current date <<year, month>> at the first invocation
    mdText,          \* the text returned by the first invocation
    mdNowAgain,      \* the current date at the second invocation
    mdTextAgain,     \* the text returned by the second invocation
    mdPc             \* "idle" | "call" | "rendered" | "done" | "again"

pagingVars == <<totalHeightPx, pageHeightPx, safeCuts, cursor, segments, pagePc>>
orderVars == <<orderInput, orderOutput, orderPc>>
techVars == <<techInput, techOutput, techPc>>
configVars == <<raw, config, configAgain, configPc>>
exportVars == <<exportPc, exportHosts, exportLog, exportResult, toasts>>
loadVars == <<loadQuery, loadBase, loadEmbedded, loadIndex, loadTried, loadResult, loadPc>>
markdownVars == <<mdConfig, mdFallbackHtml, mdNow, mdText, mdNowAgain, mdTextAgain, mdPc>>

vars == <<totalHeightPx, pageHeightPx, safeCuts, cursor, segments, pagePc,
          orderInput, orderOutput, orderPc, techInput, techOutput, techPc,
          raw, config, configAgain, configPc,
          exportPc, exportHosts, exportLog, exportResult, toasts,
          loadQuery, loadBase, loadEmbedded, loadIndex, loadTried, loadResult, loadPc,
          mdConfig, mdFallbackHtml, mdNow, mdText, mdNowAgain, mdTextAgain, mdPc>>

(***************************************************************************)
(* Bounds of the model.                                                    *)
(***************************************************************************)
MaxPageHeight == 200   \* page heights 1..MaxPageHeight
TotalStep == 50        \* document heights are multiples of TotalStep
MaxTotalSteps == 5
CutStep == 45          \* content-block edges are multiples of CutStep
MaxCutSteps == 4
MaxOrderLen == 3       \* module orders given to normalizeOrder
MaxDocOrderLen == 2    \* site.order lists of the raw documents
MaxTitles == 2         \* entries of site.moduleTitles
MaxItems == 2          \* entries of a module's item list
MaxTokens == 3         \* tokens of a technology-stack string
MaxTechItems == 2      \* elements of a technology-stack list
FixtureSpread == 60    \* page heights 800 - FixtureSpread .. 800 + FixtureSpread
MaxExports == 2        \* invocations of exportResumePdf
MaxExportPages == 2    \* slices of one export

(***************************************************************************)
(* Values: a JavaScript value is a record tagged by `k`.                   *)
(*   undefined, null, string (s), number (n), boolean (b),                 *)
(*   array (a: sequence of values), object (e: sequence of <<key, value>>  *)
(*   in property order), function (the one inherited from Object.prototype)*)
(***************************************************************************)
Undefined == [k |-> "undefined"]
Null == [k |-> "null"]
Str(s) == [k |-> "string", s |-> s]
Num(n) == [k |-> "number", n |-> n]
Bool(b) == [k |-> "boolean", b |-> b]
Arr(a) == [k |-> "array", a |-> a]
Obj(e) == [k |-> "object", e |-> e]
ObjectFn == [k |-> "function"]

\* JavaScript truthiness (`!x`, `x ? a : b`, Boolean(x)).
Truthy(v) ==
    CASE v.k = "undefined" -> FALSE
      [] v.k = "null" -> FALSE
      [] v.k = "boolean" -> v.b
      [] v.k = "number" -> v.n # 0
      [] v.k = "string" -> Len(v.s) > 0
      [] OTHER -> TRUE

\* A plausible slip: a || b, which also passes over '' and 0.
NullishOrFalsy(a, b) == IF Truthy(a) THEN a ELSE b

\* a ?? b
Nullish(a, b) == IF a.k \in {"undefined", "null"} THEN b ELSE a

\* The property names every ordinary object inherits from Object.prototype.
ObjectPrototypeProps ==
    {"constructor", "hasOwnProperty", "isPrototypeOf", "propertyIsEnumerable",
     "toLocaleString", "toString", "valueOf"}

OwnKeys(v) == IF v.k = "object" THEN {v.e[i][1] : i \in 1..Len(v.e)} ELSE {}

\* v.key / v?.key for the own data properties the program reads; reading a
\* property of undefined through `?.` gives undefined.
Get(v, key) ==
    IF key \in OwnKeys(v)
    THEN v.e[CHOOSE i \in 1..Len(v.e) : v.e[i][1] = key][2]
    ELSE Undefined

\* obj[key] = val on a list of entries: overwrite in place or append.
SetEntry(e, key, val) ==
    IF \E i \in 1..Len(e) : e[i][1] = key
    THEN [i \in 1..Len(e) |-> IF e[i][1] = key THEN <<key, val>> ELSE e[i]]
    ELSE Append(e, <<key, val>>)

(***************************************************************************)
(* Strings                                                                 *)
(***************************************************************************)
Chr(s, i) == SubSeq(s, i, i)

\* The characters \s matches, among those the model uses.
Whitespace == {" ", "\t", "\n"}

RECURSIVE trimStart(_)
trimStart(s) ==
    IF Len(s) > 0 /\ Chr(s, 1) \in Whitespace THEN trimStart(SubSeq(s, 2, Len(s))) ELSE s

RECURSIVE trimEnd(_)
trimEnd(s) ==
    IF Len(s) > 0 /\ Chr(s, Len(s)) \in Whitespace THEN trimEnd(SubSeq(s, 1, Len(s) - 1)) ELSE s

\* String.prototype.trim
trim(s) == trimEnd(trimStart(s))

UpperLetters == "ABCDEFGHIJKLMNOPQRSTUVWXYZ"
LowerLetters == "abcdefghijklmnopqrstuvwxyz"

lowerChar(c) ==
    IF \E i \in 1..Len(UpperLetters) : Chr(UpperLetters, i) = c
    THEN Chr(LowerLetters, CHOOSE i \in 1..Len(UpperLetters) : Chr(UpperLetters, i) = c)
    ELSE c

RECURSIVE toLowerCase(_)
toLowerCase(s) ==
    IF Len(s) = 0 THEN "" ELSE lowerChar(Chr(s, 1)) \o toLowerCase(SubSeq(s, 2, Len(s)))

RECURSIVE removeChars(_, _)
\* s.replace(/[...]/g, '') for a character class
removeChars(s, class) ==
    IF Len(s) = 0 THEN ""
    ELSE (IF Chr(s, 1) \in class THEN "" ELSE Chr(s, 1)) \o removeChars(SubSeq(s, 2, Len(s)), class)

RECURSIVE splitFrom(_, _, _, _, _)
\* s.split(/[class]/) when runs = FALSE, s.split(/[class]+/) when runs = TRUE:
\* the pieces between separators, the empty ones included.
splitFrom(s, i, piece, class, runs) ==
    IF i > Len(s) THEN <<piece>>
    ELSE IF Chr(s, i) \in class
         THEN LET rest == {j \in (i + 1)..Len(s) : Chr(s, j) \notin class}
                  j == IF ~runs THEN i + 1
                       ELSE IF rest = {} THEN Len(s) + 1
                       ELSE CHOOSE m \in rest : \A n \in rest : m <= n
              IN  <<piece>> \o splitFrom(s, j, "", class, runs)
         ELSE splitFrom(s, i + 1, piece \o Chr(s, i), class, runs)

split(s, class, runs) == splitFrom(s, 1, "", class, runs)

\* s.startsWith(prefix)
startsWith(s, prefix) == Len(s) >= Len(prefix) /\ SubSeq(s, 1, Len(prefix)) = prefix

\* s.replace(pattern, '') for a string pattern: the first occurrence only.
removeFirst(s, pattern) ==
    LET hits == {i \in 1..(Len(s) - Len(pattern) + 1) : SubSeq(s, i, i + Len(pattern) - 1) = pattern}
    IN  IF hits = {} THEN s
        ELSE LET i == CHOOSE m \in hits : \A n \in hits : m <= n
             IN  SubSeq(s, 1, i - 1) \o SubSeq(s, i + Len(pattern), Len(s))

Digits == "0123456789"

RECURSIVE natToString(_)
natToString(n) ==
    IF n < 10 THEN Chr(Digits, n + 1)
    ELSE natToString(n \div 10) \o Chr(Digits, (n % 10) + 1)

\* String(n) for the integers of the model
numberToString(n) == IF n < 0 THEN "-" \o natToString(0 - n) ELSE natToString(n)

RECURSIVE join(_, _)
\* parts.join(sep) for a sequence of strings
join(parts, sep) ==
    IF Len(parts) = 0 THEN ""
    ELSE IF Len(parts) = 1 THEN parts[1]
    ELSE parts[1] \o sep \o join(Tail(parts), sep)

(***************************************************************************)
(* Scalar coercion utilities                                               *)
(***************************************************************************)
asRecord(input) ==
    IF Truthy(input) /\ input.k = "object" THEN input ELSE Undefined

\* The returned JavaScript array, as a sequence of values.
toArray(input) == IF input.k = "array" THEN input.a ELSE <<>>

toStringValue(input) ==
    CASE input.k = "string" -> Str(trim(input.s))
      [] input.k = "number" -> Str(numberToString(input.n))
      [] OTHER -> Undefined

\* The returned string[], as a sequence of string values.
toStringArray(input) ==
    IF input.k = "array"
    THEN LET mapped == [i \in 1..Len(input.a) |->
                           Str(trim(Nullish(toStringValue(input.a[i]), Str("")).s))]
         IN  SelectSeq(mapped, Truthy)
    ELSE LET value == toStringValue(input)
         IN  IF ~Truthy(value) THEN <<>> ELSE <<value>>

toBooleanValue(input, fallback) ==
    IF input.k = "boolean" THEN input.b ELSE fallback

\* [start, end].filter(Boolean).join(' - '), or undefined when both are falsy
joinTimeRange(start, end) ==
    IF ~Truthy(start) /\ ~Truthy(end) THEN Undefined
    ELSE Str(join([i \in 1..Len(SelectSeq(<<start, end>>, Truthy)) |->
                      SelectSeq(<<start, end>>, Truthy)[i].s], " - "))

(***************************************************************************)
(* Alias and order resolution                                              *)
(***************************************************************************)
DEFAULT_ORDER ==
    <<"education", "skills", "projects", "profile", "work", "honors", "openSource">>

\* The titles are Chinese in the source; here their pinyin stands for them.
MODULE_TITLES ==
    << <<"education", Str("JiaoYuJingLi")>>,
       <<"skills", Str("ZhuanYeJiNeng")>>,
       <<"projects", Str("XiangMuJingLi")>>,
       <<"profile", Str("ZiWoMiaoShu")>>,
       <<"work", Str("GongZuoJingLi")>>,
       <<"honors", Str("RongYu")>>,
       <<"openSource", Str("KaiYuanJingLi")>> >>

MODULE_ALIAS ==
    [education |-> "education", edu |-> "education",
     skill |-> "skills", skills |-> "skills",
     project |-> "projects", projects |-> "projects", exp |-> "projects",
     profile |-> "profile", evaluation |-> "profile",
     work |-> "work", workexperience |-> "work",
     honer |-> "honors", honor |-> "honors", honors |-> "honors",
     opensource |-> "openSource", open_source |-> "openSource"]

\* A lookup that consults the table's own entries only.
aliasLookupOwnOnly(clean) ==
    IF clean \in DOMAIN MODULE_ALIAS THEN Str(MODULE_ALIAS[clean]) ELSE Undefined

\* MODULE_ALIAS[clean]: MODULE_ALIAS is an object literal, so a name that is
\* not one of its own entries is looked up on Object.prototype, where the
\* inherited names hold functions.
aliasLookup(clean) ==
    IF clean \in DOMAIN MODULE_ALIAS THEN Str(MODULE_ALIAS[clean])
    ELSE IF clean \in ObjectPrototypeProps THEN ObjectFn
    ELSE Undefined

\* value is a string (or undefined, written "" here: both are falsy).
normalizeModuleKey(value) ==
    IF Len(value) = 0 THEN Undefined
    ELSE aliasLookup(toLowerCase(removeChars(value, {"_", "-"} \cup Whitespace)))

RECURSIVE normalizeOrderLoop(_, _)
\* The first loop of normalizeOrder over the rest of `source`.
normalizeOrderLoop(source, output) ==
    IF Len(source) = 0 THEN output
    ELSE LET normalized == normalizeModuleKey(Head(source))
         IN  IF ~Truthy(normalized) \/ (\E i \in 1..Len(output) : output[i] = normalized)
             THEN normalizeOrderLoop(Tail(source), output)
             ELSE normalizeOrderLoop(Tail(source), Append(output, normalized))

RECURSIVE appendFallback(_, _)
\* The second loop of normalizeOrder over the rest of DEFAULT_ORDER.
appendFallback(fallback, output) ==
    IF Len(fallback) = 0 THEN output
    ELSE IF \E i \in 1..Len(output) : output[i] = Str(Head(fallback))
         THEN appendFallback(Tail(fallback), output)
         ELSE appendFallback(Tail(fallback), Append(output, Str(Head(fallback))))

\* order: a sequence of strings; the result: a sequence of values.
normalizeOrder(order) ==
    LET source == IF Len(order) > 0 THEN order ELSE DEFAULT_ORDER
    IN  appendFallback(DEFAULT_ORDER, normalizeOrderLoop(source, <<>>))

\* String(Object), the property name a function value is coerced to.
ObjectFnKey == "function Object() { [native code] }"

\* The property name `output[moduleKey] = text` writes.
propertyKey(v) == IF v.k = "string" THEN v.s ELSE ObjectFnKey

RECURSIVE titleMapLoop(_, _)
titleMapLoop(entries, output) ==
    IF Len(entries) = 0 THEN output
    ELSE LET moduleKey == normalizeModuleKey(Head(entries)[1])
             text == toStringValue(Head(entries)[2])
         IN  IF Truthy(moduleKey) /\ Truthy(text)
             THEN titleMapLoop(Tail(entries), SetEntry(output, propertyKey(moduleKey), text))
             ELSE titleMapLoop(Tail(entries), output)

\* input: a record or undefined; the result: the entries of the returned map.
normalizeModuleTitleMap(input) ==
    IF ~Truthy(input) THEN <<>> ELSE titleMapLoop(input.e, <<>>)

RECURSIVE spread(_, _)
\* { ...base, ...over } on lists of entries
spread(base, over) ==
    IF Len(over) = 0 THEN base
    ELSE spread(SetEntry(base, Head(over)[1], Head(over)[2]), Tail(over))

\* A plausible slip: the '#' is prepended without looking at the value.
normalizeColorAlwaysPrefixed(value) ==
    LET trimmed == trim(value)
    IN  IF Len(trimmed) = 0 THEN "#111111" ELSE "#" \o trimmed

normalizeColor(value) ==
    LET trimmed == trim(value)
    IN  IF Len(trimmed) = 0 THEN "#111111"
        ELSE IF startsWith(trimmed, "#") THEN trimmed
        ELSE "#" \o trimmed

\* The delimiters of /[\s,/|]+/
TechDelimiters == {",", "/", "|"} \cup Whitespace

\* The split the source means for a delimiter-separated string.
splitTechString(value) ==
    LET pieces == split(value.s, TechDelimiters, TRUE)
        trimmed == [i \in 1..Len(pieces) |-> Str(trim(pieces[i]))]
    IN  SelectSeq(trimmed, Truthy)

\* normalizeTechStack: toStringArray first, and its result returned when it
\* is not empty; the split only after that.
normalizeTechStack(input) ==
    LET fromArray == toStringArray(input)
        value == toStringValue(input)
    IN  IF Len(fromArray) > 0 THEN fromArray
        ELSE IF ~Truthy(value) THEN <<>>
        ELSE splitTechString(value)

\* The separators of /[~...-]/: tilde, fullwidth tilde (written "^"), em
\* dash (written "="), en dash (written "+") and hyphen.
PeriodSeparators == {"~", "^", "=", "+", "-"}

\* value: a string value or undefined.  The fields of the result are values.
parseWorkPeriodText(value) ==
    IF ~Truthy(value) THEN Undefined
    ELSE LET pieces == split(value.s, PeriodSeparators, FALSE)
             start == Str(trim(pieces[1]))
             end == IF Len(pieces) >= 2 THEN Str(trim(pieces[2])) ELSE Undefined
         IN  IF ~Truthy(start) /\ ~Truthy(end) THEN Undefined
             ELSE Obj(<< <<"start", start>>, <<"end", end>> >>)

(***************************************************************************)
(* Section normalizers.  Each returns a section object or undefined.       *)
(***************************************************************************)
section(enabled, items) == Obj(<< <<"enabled", Bool(enabled)>>, <<"items", Arr(items)>> >>)

\* section?.items ?? input, through toArray
itemsRawOf(input) == toArray(Nullish(Get(asRecord(input), "items"), input))

educationCourses(coursesRaw) ==
    LET nameOf(course) ==
            Nullish(toStringValue(Get(asRecord(course), "name")), toStringValue(course))
        kept == SelectSeq(coursesRaw, LAMBDA c : Truthy(nameOf(c)))
    IN  [i \in 1..Len(kept) |->
            Obj(<< <<"name", nameOf(kept[i])>>,
                   <<"credit", toStringValue(Get(asRecord(kept[i]), "credit"))>> >>)]

normalizeEducationSection(input) ==
    IF ~Truthy(input) THEN Undefined
    ELSE LET kept == SelectSeq(itemsRawOf(input),
                         LAMBDA item : Truthy(toStringValue(Get(asRecord(item), "school"))))
             items == [i \in 1..Len(kept) |->
                 LET source == asRecord(kept[i])
                 IN  Obj(<< <<"school", toStringValue(Get(source, "school"))>>,
                            <<"start", toStringValue(Get(source, "start"))>>,
                            <<"end", toStringValue(Get(source, "end"))>>,
                            <<"gpa", toStringValue(Get(source, "gpa"))>>,
                            <<"major", toStringValue(Get(source, "major"))>>,
                            <<"courses", Arr(educationCourses(toArray(Get(source, "courses"))))>>,
                            <<"rank", toStringValue(Get(source, "rank"))>>,
                            <<"degree", toStringValue(Get(source, "degree"))>> >>)]
         IN  IF Len(items) = 0 THEN Undefined
             ELSE section(toBooleanValue(Get(asRecord(input), "enabled"), TRUE), items)

normalizeSkillsSection(input) ==
    IF ~Truthy(input) THEN Undefined
    ELSE LET sect == asRecord(input)
             items == toStringArray(Nullish(Get(sect, "items"), input))
             listStyle == toStringValue(Get(sect, "listStyle"))
         IN  IF Len(items) = 0 THEN Undefined
             ELSE Obj(<< <<"enabled", Bool(toBooleanValue(Get(sect, "enabled"), TRUE))>>,
                         <<"ordered", Bool((listStyle.k = "string"
                                              /\ toLowerCase(listStyle.s) = "ordered")
                                           \/ toBooleanValue(Get(sect, "ordered"), FALSE))>>,
                         <<"hideIndex", Bool(toBooleanValue(Get(sect, "hideIndex"), FALSE))>>,
                         <<"items", Arr(items)>> >>)

normalizeProjectsSection(input) ==
    IF ~Truthy(input) THEN Undefined
    ELSE LET kept == SelectSeq(itemsRawOf(input),
                         LAMBDA item : Truthy(toStringValue(Get(asRecord(item), "name"))))
             items == [i \in 1..Len(kept) |->
                 LET source == asRecord(kept[i])
                 IN  Obj(<< <<"name", toStringValue(Get(source, "name"))>>,
                            <<"time", toStringValue(Get(source, "time"))>>,
                            <<"description", toStringValue(Get(source, "description"))>>,
                            <<"responsibilities",
                              Arr(toStringArray(Get(source, "responsibilities")))>>,
                            <<"techStack", Arr(normalizeTechStack(Get(source, "techStack")))>> >>)]
         IN  IF Len(items) = 0 THEN Undefined
             ELSE section(toBooleanValue(Get(asRecord(input), "enabled"), TRUE), items)

normalizeProfileSection(input) ==
    IF ~Truthy(input) THEN Undefined
    ELSE LET sect == asRecord(input)
             content == toStringValue(Nullish(Get(sect, "content"), input))
         IN  IF ~Truthy(content) THEN Undefined
             ELSE Obj(<< <<"enabled", Bool(toBooleanValue(Get(sect, "enabled"), TRUE))>>,
                         <<"content", content>> >>)

normalizeWorkSection(input) ==
    IF ~Truthy(input) THEN Undefined
    ELSE LET kept == SelectSeq(itemsRawOf(input),
                         LAMBDA item : Truthy(toStringValue(Get(asRecord(item), "company"))))
             items == [i \in 1..Len(kept) |->
                 LET source == asRecord(kept[i])
                 IN  Obj(<< <<"company", toStringValue(Get(source, "company"))>>,
                            <<"time", toStringValue(Get(source, "time"))>>,
                            <<"position", toStringValue(Get(source, "position"))>>,
                            <<"achievements", Arr(toStringArray(Get(source, "achievements")))>> >>)]
         IN  IF Len(items) = 0 THEN Undefined
             ELSE section(toBooleanValue(Get(asRecord(input), "enabled"), TRUE), items)

normalizeHonorsSection(input) ==
    IF ~Truthy(input) THEN Undefined
    ELSE LET nameOf(item) ==
                 Nullish(toStringValue(Get(asRecord(item), "name")), toStringValue(item))
             kept == SelectSeq(itemsRawOf(input), LAMBDA item : Truthy(nameOf(item)))
             items == [i \in 1..Len(kept) |->
                 Obj(<< <<"name", nameOf(kept[i])>>,
                        <<"time", toStringValue(Get(asRecord(kept[i]), "time"))>> >>)]
         IN  IF Len(items) = 0 THEN Undefined
             ELSE section(toBooleanValue(Get(asRecord(input), "enabled"), TRUE), items)

normalizeOpenSourceSection(input) ==
    IF ~Truthy(input) THEN Undefined
    ELSE LET kept == SelectSeq(itemsRawOf(input),
                         LAMBDA item : Truthy(toStringValue(Get(asRecord(item), "name"))))
             items == [i \in 1..Len(kept) |->
                 LET source == asRecord(kept[i])
                 IN  Obj(<< <<"name", toStringValue(Get(source, "name"))>>,
                            <<"url", toStringValue(Get(source, "url"))>>,
                            <<"stars", toStringValue(Get(source, "stars"))>>,
                            <<"description", toStringValue(Get(source, "description"))>>,
                            <<"achievements", Arr(toStringArray(Get(source, "achievements")))>> >>)]
         IN  IF Len(items) = 0 THEN Undefined
             ELSE section(toBooleanValue(Get(asRecord(input), "enabled"), TRUE), items)

\* The label the legacy `role` field is stripped of: four Chinese characters
\* ("backend development"), a space, a bullet and a space in the source.
LegacyRoleLabel == "HouDuanKaiFa * "

\* toStringValue(role)?.replace(label, '')
legacyProjectTime(role) ==
    LET text == toStringValue(role)
    IN  IF text.k = "string" THEN Str(removeFirst(text.s, LegacyRoleLabel)) ELSE Undefined

\* items: a sequence of values; the result: a sequence of project items.
normalizeLegacyProjects(items) ==
    LET kept == SelectSeq(items,
                    LAMBDA item : Truthy(toStringValue(Get(asRecord(item), "name"))))
    IN  [i \in 1..Len(kept) |->
            LET source == asRecord(kept[i])
            IN  Obj(<< <<"name", toStringValue(Get(source, "name"))>>,
                       <<"time", legacyProjectTime(Get(source, "role"))>>,
                       <<"description", toStringValue(Get(source, "bg"))>>,
                       <<"responsibilities", Arr(toStringArray(Get(source, "des")))>>,
                       <<"techStack", Arr(normalizeTechStack(Get(source, "stack")))>> >>)]

normalizeLegacyWorkItems(items) ==
    LET kept == SelectSeq(items,
                    LAMBDA item : Truthy(toStringValue(Get(asRecord(item), "company"))))
    IN  [i \in 1..Len(kept) |->
            LET source == asRecord(kept[i])
            IN  Obj(<< <<"company", toStringValue(Get(source, "company"))>>,
                       <<"time", joinTimeRange(toStringValue(Get(source, "startDate")),
                                               toStringValue(Get(source, "endDate")))>>,
                       <<"position", toStringValue(Get(source, "position"))>>,
                       <<"achievements", Arr(toStringArray(Get(source, "responsibilities")))>> >>)]

\* items.map(...).filter(Boolean): the links with a label and a url
normalizeLinks(items) ==
    LET kept == SelectSeq(items,
                    LAMBDA item : /\ Truthy(toStringValue(Get(asRecord(item), "label")))
                                  /\ Truthy(toStringValue(Get(asRecord(item), "url"))))
    IN  [i \in 1..Len(kept) |->
            Obj(<< <<"label", toStringValue(Get(asRecord(kept[i]), "label"))>>,
                   <<"url", toStringValue(Get(asRecord(kept[i]), "url"))>> >>)]

\* ASCII characters encodeURIComponent escapes (the quotation mark and the
\* grave accent are left out of the model), and their escapes.
EscapedChars == " #$%&+,/:;<=>?@[]^{|}"
EscapeCodes ==
    <<"%20", "%23", "%24", "%25", "%26", "%2B", "%2C", "%2F", "%3A", "%3B", "%3C",
      "%3D", "%3E", "%3F", "%40", "%5B", "%5D", "%5E", "%7B", "%7C", "%7D">>

RECURSIVE encodeURIComponent(_)
encodeURIComponent(s) ==
    IF Len(s) = 0 THEN ""
    ELSE LET c == Chr(s, 1)
             hits == {i \in 1..Len(EscapedChars) : Chr(EscapedChars, i) = c}
         IN  (IF hits = {} THEN c ELSE EscapeCodes[CHOOSE i \in hits : TRUE])
                 \o encodeURIComponent(SubSeq(s, 2, Len(s)))

\* basic: a record or undefined
normalizeLegacyAddressLinks(basic) ==
    LET city == toStringValue(Get(basic, "city"))
    IN  IF ~Truthy(city) THEN <<>>
        ELSE << Obj(<< <<"label", city>>,
                       <<"url", Str("https://maps.google.com/?q=" \o encodeURIComponent(city.s))>> >>) >>

\* input: a record or undefined
normalizeEducationSummary(input) ==
    IF ~Truthy(input) THEN Undefined
    ELSE Obj(<< <<"school", toStringValue(Get(input, "school"))>>,
                <<"major", toStringValue(Get(input, "major"))>>,
                <<"degree", toStringValue(Get(input, "degree"))>>,
                <<"graduationYear", toStringValue(Get(input, "graduationYear"))>>,
                <<"raw", toStringValue(Get(input, "raw"))>> >>)

(***************************************************************************)
(* normalizeConfig                                                         *)
(***************************************************************************)

\* The defaults, Chinese in the source ("personal resume", "unnamed").
DefaultTitle == Str("GeRenJianLi")
DefaultName == Str("WeiMingMing")

\* toStringArray's result as a sequence of strings, as normalizeOrder takes it.
stringsOf(values) == [i \in 1..Len(values) |-> values[i].s]

normalizeModernConfig(data) ==
    LET siteObject == asRecord(Get(data, "site"))
        basicObject == asRecord(Get(data, "basic"))
        moduleTitles ==
            spread(MODULE_TITLES, normalizeModuleTitleMap(asRecord(Get(siteObject, "moduleTitles"))))
        site ==
            Obj(<< <<"title", Nullish(toStringValue(Get(siteObject, "title")), DefaultTitle)>>,
                   <<"themeColor",
                     Str(normalizeColor(Nullish(toStringValue(Get(siteObject, "themeColor")),
                                                Str("#111111")).s))>>,
                   <<"pdfFileName",
                     Nullish(toStringValue(Get(siteObject, "pdfFileName")), Str("resume.pdf"))>>,
                   <<"order", Arr(normalizeOrder(stringsOf(toStringArray(Get(siteObject, "order")))))>>,
                   <<"moduleTitles", Obj(moduleTitles)>> >>)
        workPeriod == asRecord(Get(basicObject, "workPeriod"))
        contacts == asRecord(Get(basicObject, "contacts"))
        basic ==
            Obj(<< <<"name", Nullish(toStringValue(Get(basicObject, "name")), DefaultName)>>,
                   <<"gender", toStringValue(Get(basicObject, "gender"))>>,
                   <<"age", toStringValue(Get(basicObject, "age"))>>,
                   <<"position", toStringValue(Get(basicObject, "position"))>>,
                   <<"workPeriod", Obj(<< <<"start", toStringValue(Get(workPeriod, "start"))>>,
                                          <<"end", toStringValue(Get(workPeriod, "end"))>> >>)>>,
                   <<"contacts", Obj(<< <<"wechat", toStringValue(Get(contacts, "wechat"))>>,
                                        <<"phone", toStringValue(Get(contacts, "phone"))>>,
                                        <<"email", toStringValue(Get(contacts, "email"))>> >>)>>,
                   <<"educationSummary",
                     normalizeEducationSummary(asRecord(Get(basicObject, "educationSummary")))>>,
                   <<"addressLinks",
                     Arr(normalizeLinks(toArray(Get(basicObject, "addressLinks"))))>> >>)
    IN  Obj(<< <<"site", site>>,
               <<"basic", basic>>,
               <<"education", normalizeEducationSection(Get(data, "education"))>>,
               <<"skills", normalizeSkillsSection(Get(data, "skills"))>>,
               <<"projects", normalizeProjectsSection(Get(data, "projects"))>>,
               <<"profile", normalizeProfileSection(Get(data, "profile"))>>,
               <<"work", normalizeWorkSection(Get(data, "work"))>>,
               <<"honors", normalizeHonorsSection(Get(data, "honors"))>>,
               <<"openSource", normalizeOpenSourceSection(Get(data, "openSource"))>> >>)

\* Object.keys(modulesFromConf ?? {})
keysOf(record) ==
    IF record.k = "object" THEN [i \in 1..Len(record.e) |-> record.e[i][1]] ELSE <<>>

normalizeLegacyConfig(data) ==
    LET conf == asRecord(Get(data, "conf"))
        basicLegacy == asRecord(Get(data, "basic"))
        modulesFromConf == asRecord(Get(conf, "modules"))
        overall == toStringValue(Get(basicLegacy, "overall"))
        site ==
            Obj(<< <<"title", Nullish(toStringValue(Get(conf, "title")), DefaultTitle)>>,
                   <<"themeColor",
                     Str(normalizeColor(Nullish(toStringValue(Get(conf, "mainThemeColor")),
                                                Str("#111111")).s))>>,
                   <<"pdfFileName", Nullish(toStringValue(Get(conf, "pdf")), Str("resume.pdf"))>>,
                   <<"order", Arr(normalizeOrder(keysOf(modulesFromConf)))>>,
                   <<"moduleTitles",
                     Obj(spread(MODULE_TITLES, normalizeModuleTitleMap(modulesFromConf)))>> >>)
        basic ==
            Obj(<< <<"name", Nullish(toStringValue(Get(basicLegacy, "cnName")), DefaultName)>>,
                   <<"gender", toStringValue(Get(basicLegacy, "sex"))>>,
                   <<"age", toStringValue(Get(basicLegacy, "birth"))>>,
                   <<"position", toStringValue(Get(basicLegacy, "objective"))>>,
                   <<"workPeriod", parseWorkPeriodText(overall)>>,
                   <<"contacts",
                     Obj(<< <<"wechat", Nullish(toStringValue(Get(basicLegacy, "wechat")),
                                                toStringValue(Get(basicLegacy, "wechatText")))>>,
                            <<"phone", Nullish(toStringValue(Get(basicLegacy, "phone")),
                                               toStringValue(Get(basicLegacy, "phoneNumber")))>>,
                            <<"email", Nullish(toStringValue(Get(basicLegacy, "email")),
                                               toStringValue(Get(basicLegacy, "emailText")))>> >>)>>,
                   <<"educationSummary",
                     IF Truthy(Get(basicLegacy, "college"))
                     THEN Obj(<< <<"raw", toStringValue(Get(basicLegacy, "college"))>> >>)
                     ELSE Undefined>>,
                   <<"addressLinks", Arr(normalizeLegacyAddressLinks(basicLegacy))>> >>)
        profileContent == toStringValue(Get(data, "evaluation"))
    IN  Obj(<< <<"site", site>>,
               <<"basic", basic>>,
               <<"education", Undefined>>,
               <<"skills", Obj(<< <<"enabled", Bool(TRUE)>>,
                                  <<"ordered", Bool(FALSE)>>,
                                  <<"hideIndex", Bool(FALSE)>>,
                                  <<"items", Arr(toStringArray(Get(data, "skill")))>> >>)>>,
               <<"projects", section(TRUE, normalizeLegacyProjects(toArray(Get(data, "exp"))))>>,
               <<"profile",
                 IF Truthy(profileContent)
                 THEN Obj(<< <<"enabled", Bool(TRUE)>>, <<"content", profileContent>> >>)
                 ELSE Undefined>>,
               <<"work",
                 section(TRUE, normalizeLegacyWorkItems(toArray(Get(data, "workExperience"))))>>,
               <<"honors", normalizeHonorsSection(Get(data, "honors"))>>,
               <<"openSource", normalizeOpenSourceSection(Get(data, "openSource"))>> >>)

\* What a throw of normalizeConfig leaves in place of a document.
TypeError == [k |-> "TypeError"]

\* key in data, for a data that has properties
hasProperty(key, data) == key \in OwnKeys(data) \/ key \in ObjectPrototypeProps

\* 'conf' in data && 'basic' in data
isLegacyShape(data) == hasProperty("conf", data) /\ hasProperty("basic", data)

\* The document returned, or TypeError: the `in` operator throws when its
\* right operand is a primitive (a string, a number or a boolean).
normalizeConfig(rawValue) ==
    LET data == Nullish(rawValue, Obj(<<>>))
    IN  IF data.k \in {"string", "number", "boolean"} THEN TypeError
        ELSE IF isLegacyShape(data) THEN normalizeLegacyConfig(data)
        ELSE normalizeModernConfig(data)

(***************************************************************************)
(* Pagination planner                                                      *)
(***************************************************************************)

\* The slack of `next <= cursor + 80`.
SlackPx == 80

\* A plausible slip: half a page instead of 55 percent of it.
minimumSegmentPxHalf(pageHeight) == (pageHeight * 50) \div 100

\* Math.floor(pageHeightPx * 0.55).  0.55 is slightly above 55/100 as a
\* double and the fractional part of p * 55 / 100 is at most 0.95, so the
\* floating-point floor equals the integer quotient for every integer p.
minimumSegmentPx(pageHeight) == (pageHeight * 55) \div 100

RECURSIVE SortedSeq(_)
\* Array.from(values).sort((a, b) => a - b)
SortedSeq(S) ==
    IF S = {} THEN <<>>
    ELSE LET m == CHOOSE x \in S : \A y \in S : x <= y
         IN  <<m>> \o SortedSeq(S \ {m})

\* collectSafeCuts: 0 and totalHeightPx, plus every block edge (top or
\* bottom, already scaled and floored) strictly inside the document.
collectSafeCuts(edges, totalHeight) ==
    SortedSeq({0, totalHeight} \cup {e \in edges : e > 0 /\ e < totalHeight})

RECURSIVE findLastSafeCutFrom(_, _, _, _, _)
\* The loop of findLastSafeCut from index i on; `output` is <<>> (undefined)
\* or <<cut>>.
findLastSafeCutFrom(cuts, i, min, max, output) ==
    IF i > Len(cuts) THEN output
    ELSE IF cuts[i] < min THEN findLastSafeCutFrom(cuts, i + 1, min, max, output)
    ELSE IF cuts[i] > max THEN output
    ELSE findLastSafeCutFrom(cuts, i + 1, min, max, <<cuts[i]>>)

\* A plausible slip: the loop does not stop at the upper limit.
findLastSafeCutNoMax(cuts, min, max) ==
    IF Len(cuts) = 0 THEN <<>>
    ELSE findLastSafeCutFrom(cuts, 1, min, cuts[Len(cuts)], <<>>)

\* A plausible slip: the upper limit is taken as exclusive (cut >= max).
findLastSafeCutExclusive(cuts, min, max) ==
    findLastSafeCutFrom(cuts, 1, min, max - 1, <<>>)

findLastSafeCut(cuts, min, max) == findLastSafeCutFrom(cuts, 1, min, max, <<>>)

Min2(a, b) == IF a <= b THEN a ELSE b

\* A plausible slip: the degenerate-cut fallback is left out.
nextCutNoFallback(cuts, cur, pageHeight, totalHeight) ==
    LET target == cur + pageHeight
        candidate == findLastSafeCut(cuts, cur + minimumSegmentPx(pageHeight), target)
    IN  IF candidate = <<>> THEN target ELSE candidate[1]

\* The end of a non-final segment: `candidate ?? target`, replaced by
\* Math.min(totalHeightPx, target) when it is within 80 px of the cursor.
nextCut(cuts, cur, pageHeight, totalHeight) ==
    LET target == cur + pageHeight
        candidate == findLastSafeCut(cuts, cur + minimumSegmentPx(pageHeight), target)
        next == IF candidate = <<>> THEN target ELSE candidate[1]
    IN  IF next <= cur + SlackPx THEN Min2(totalHeight, target) ELSE next

(***************************************************************************)
(* Inputs                                                                  *)
(***************************************************************************)

\* The sequences over S of length at most n.
SeqsUpTo(S, n) == UNION {[1..m -> S] : m \in 0..n}

\* A property the object literal does not have.
Absent == [k |-> "absent"]

\* An object literal whose Absent properties are left out.
MkObj(pairs) == Obj(SelectSeq(pairs, LAMBDA p : p[2] # Absent))

\* Keys of a module order: canonical names, aliases in several spellings, an
\* unknown name, the empty string and a name every object inherits.
OrderKeys ==
    {"education", "edu", "Skills", "Open-Source", "open_source", "exp", "honer",
     "nosuch", "", "constructor"}

TechTokens == {"Go", "Rust", "C++"}
TechSeparators == {", ", "/ ", "|", " "}

RECURSIVE TechStrings(_)
\* Delimiter-separated strings of n tokens.
TechStrings(n) ==
    IF n = 1 THEN TechTokens
    ELSE {s \o d \o t : s \in TechStrings(n - 1), d \in TechSeparators, t \in TechTokens}

TechElements == {Str("Go"), Str(" Rust "), Str(""), Num(7), Null}

TechInputs ==
    {Str(s) : s \in UNION {TechStrings(n) : n \in 1..MaxTokens}}
        \cup {Arr(a) : a \in SeqsUpTo(TechElements, MaxTechItems)}
        \cup {Undefined, Null, Num(0), Num(5), Bool(TRUE), Str(""), Str("  "), Obj(<<>>)}

\* Roots that are not maps.
RootShapes ==
    {Undefined, Null, Str("hello"), Str(""), Num(0), Num(42), Bool(TRUE), Bool(FALSE),
     Arr(<<>>), Arr(<<Str("x")>>), Obj(<<>>)}

SiteDocs ==
    {MkObj(<< <<"site", MkObj(<< <<"title", t>>, <<"themeColor", c>>, <<"pdfFileName", f>> >>)>> >>) :
        t \in {Absent, Str(" My CV "), Str(""), Num(5), Bool(TRUE)},
        c \in {Absent, Str("abc"), Str(" #fff "), Str("  "), Num(123), Null},
        f \in {Absent, Str("cv"), Str("cv.PDF")}}
      \cup {Obj(<< <<"site", s>> >>) : s \in {Str("x"), Null, Arr(<<>>)}}

OrderDocs ==
    {Obj(<< <<"site", Obj(<< <<"order", Arr([i \in 1..Len(o) |-> Str(o[i])])>> >>)>> >>) :
        o \in SeqsUpTo(OrderKeys, MaxDocOrderLen)}
      \cup {Obj(<< <<"site", Obj(<< <<"order", v>> >>)>> >>) :
              v \in {Str("work"), Num(3), Arr(<<Str(" edu "), Num(1), Null, Str("")>>)}}

TitleKeys == {"edu", "Open-Source", "nosuch", "constructor"}
TitleTexts == {Str(" T "), Str(""), Num(3), Null}

TitleDocs ==
    {Obj(<< <<"site", Obj(<< <<"moduleTitles", Obj(e)>> >>)>> >>) :
        e \in {x \in SeqsUpTo(TitleKeys \X TitleTexts, MaxTitles) :
                 \A i, j \in 1..Len(x) : i # j => x[i][1] # x[j][1]}}

BasicDocs ==
    {MkObj(<< <<"basic", MkObj(<< <<"name", n>>, <<"gender", Str("F")>>, <<"age", Num(30)>>,
                                  <<"workPeriod", w>>, <<"contacts", c>>,
                                  <<"educationSummary", s>>, <<"addressLinks", l>> >>)>> >>) :
        n \in {Absent, Str(" Ann "), Str("")},
        w \in {Absent, Obj(<< <<"start", Str("2019.01")>>, <<"end", Num(2021)>> >>), Str("2019")},
        c \in {Absent, Obj(<< <<"phone", Num(123)>>, <<"email", Str(" a@b.c ")>> >>), Arr(<<>>)},
        s \in {Absent, Obj(<< <<"school", Str("MIT")>>, <<"raw", Str("")>> >>), Str("MIT")},
        l \in {Absent,
               Arr(<< Obj(<< <<"label", Str("Home")>>, <<"url", Str("https://x.y")>> >>),
                      Obj(<< <<"label", Str("NoUrl")>> >>), Str("z") >>),
               Str("x")}}

\* The item-list modules of the modern schema with their identifying field.
ItemModules == {"education", "projects", "work", "honors", "openSource"}
KeyField ==
    [education |-> "school", projects |-> "name", work |-> "company",
     honors |-> "name", openSource |-> "name"]

\* An entry with every field its module reads.
RichEntry(m) ==
    CASE m = "education" ->
           Obj(<< <<"school", Str(" A ")>>, <<"start", Num(2015)>>, <<"end", Str("2019")>>,
                  <<"gpa", Str("3.9")>>, <<"major", Str("CS")>>,
                  <<"courses", Arr(<< Obj(<< <<"name", Str("Math")>>, <<"credit", Num(3)>> >>),
                                      Str("Art"), Obj(<< <<"credit", Num(2)>> >>) >>)>>,
                  <<"rank", Str("1/30")>>, <<"degree", Str("BSc")>> >>)
      [] m = "projects" ->
           Obj(<< <<"name", Str(" A ")>>, <<"time", Str("2020")>>, <<"description", Str("d")>>,
                  <<"responsibilities", Arr(<<Str("r1"), Str(""), Num(2)>>)>>,
                  <<"techStack", Str("Go, Rust/ C++")>> >>)
      [] m = "work" ->
           Obj(<< <<"company", Str(" A ")>>, <<"time", Str("2020")>>, <<"position", Str("dev")>>,
                  <<"achievements", Str("did it")>> >>)
      [] m = "honors" ->
           Obj(<< <<"name", Str(" A ")>>, <<"time", Num(2020)>> >>)
      [] OTHER ->
           Obj(<< <<"name", Str(" A ")>>, <<"url", Str("https://x.y")>>, <<"stars", Num(10)>>,
                  <<"description", Str("d")>>, <<"achievements", Arr(<<Str("a1")>>)>> >>)

\* Entries of a module's list: with the identifying field, without it, with
\* a blank or a numeric one, and an entry that is a bare string.
Entries(m) ==
    {RichEntry(m),
     Obj(<< <<KeyField[m], Str("B")>> >>),
     Obj(<< <<"time", Str("2020")>> >>),
     Obj(<< <<KeyField[m], Str("  ")>> >>),
     Obj(<< <<KeyField[m], Num(7)>> >>),
     Str("C")}

\* A section given as a bare list, as a wrapper object, or as neither.
SectionShapes(lists) ==
    {Arr(l) : l \in lists}
      \cup {MkObj(<< <<"enabled", en>>, <<"items", Arr(l)>> >>) :
              en \in {Absent, Bool(FALSE)}, l \in lists}
      \cup {Obj(<<>>), Str("x"), Bool(TRUE), Num(0)}

SectionDocs ==
    UNION {{Obj(<< <<m, s>> >>) : s \in SectionShapes(SeqsUpTo(Entries(m), MaxItems))} :
              m \in ItemModules}

SkillsDocs ==
    {Obj(<< <<"skills", s>> >>) :
        s \in {Arr(<<Str(" Go "), Num(3), Str("")>>), Arr(<<Str("")>>), Str("Go"), Str(" "),
               Obj(<< <<"items", Arr(<<Str("Go")>>)>>, <<"listStyle", Str(" Ordered ")>> >>),
               Obj(<< <<"items", Str("Go")>>, <<"ordered", Bool(TRUE)>>,
                      <<"hideIndex", Bool(TRUE)>>, <<"enabled", Bool(FALSE)>> >>),
               Obj(<< <<"items", Arr(<<>>)>> >>), Obj(<< <<"listStyle", Str("ordered")>> >>)}}

ProfileDocs ==
    {Obj(<< <<"profile", p>> >>) :
        p \in {Str(" me "), Str("  "), Num(0), Num(7), Obj(<< <<"content", Str("me")>> >>),
               Obj(<< <<"content", Str("")>>, <<"enabled", Bool(FALSE)>> >>),
               Obj(<< <<"enabled", Bool(TRUE)>> >>), Arr(<<Str("me")>>)}}

ModernDocs == SiteDocs \cup OrderDocs \cup TitleDocs \cup BasicDocs \cup SectionDocs
                \cup SkillsDocs \cup ProfileDocs

\* The legacy markers, present or not, next to modern keys.
LegacyConf == Obj(<< <<"title", Str("T")>>, <<"mainThemeColor", Str("0a0")>>, <<"pdf", Str("n")>>,
                     <<"modules", Obj(<< <<"work_experience", Str("Jobs")>>, <<"exp", Str("")>>,
                                         <<"nosuch", Str("x")>> >>)>> >>)
LegacyBasic == Obj(<< <<"cnName", Str("N")>>, <<"sex", Str("M")>>, <<"birth", Num(1990)>>,
                      <<"objective", Str("dev")>>, <<"overall", Str("2019.01~2021.06")>>,
                      <<"phone", Num(123)>>, <<"emailText", Str("a@b.c")>>,
                      <<"college", Str("MIT")>>, <<"city", Str("New York")>> >>)

MarkerDocs ==
    {MkObj(<< <<"conf", c>>, <<"basic", b>>, <<"site", s>>, <<"education", e>> >>) :
        c \in {Absent, Null, Obj(<<>>), LegacyConf, Str("x")},
        b \in {Absent, Null, LegacyBasic, Obj(<< <<"name", Str("Ann")>> >>)},
        s \in {Absent, Obj(<< <<"title", Str("Modern")>> >>)},
        e \in {Absent, Arr(<<Obj(<< <<"school", Str("A")>> >>)>>)}}

Overalls ==
    {Str("2019.01~2021.06"), Str(" 2019.01 ~ 2021.06 "), Str("2019-01~2021-06"),
     Str("2019.01^2021.06"), Str("2019.01=2021.06"), Str("2019.01+2021.06"),
     Str("2019.01-2021.06"), Str("2019.01"), Str("~2021.06"), Str("2019.01~"), Str("~"),
     Str(""), Num(2019), Null, Absent}

OverallDocs ==
    {Obj(<< <<"conf", Obj(<< <<"title", Str("T")>> >>)>>,
            <<"basic", MkObj(<< <<"cnName", n>>, <<"overall", o>> >>)>> >>) :
        n \in {Absent, Str("N"), Str(" N ")}, o \in Overalls}

LegacyProjects ==
    {Obj(<< <<"name", Str(" A ")>>, <<"role", Str("HouDuanKaiFa * 2020")>>, <<"bg", Str("d")>>,
            <<"des", Arr(<<Str("r1")>>)>>, <<"stack", Str("Go, Rust/ C++")>> >>),
     Obj(<< <<"name", Str("B")>>, <<"role", Str("Lead, HouDuanKaiFa * 2021")>> >>),
     Obj(<< <<"role", Str("2020")>> >>),
     Obj(<< <<"name", Str("")>> >>),
     Str("C")}

LegacyWorkItems ==
    {Obj(<< <<"company", Str(" A ")>>, <<"startDate", Str("2019")>>, <<"endDate", Str("2021")>>,
            <<"position", Str("dev")>>, <<"responsibilities", Arr(<<Str("r1")>>)>> >>),
     Obj(<< <<"company", Str("B")>>, <<"endDate", Num(2022)>> >>),
     Obj(<< <<"position", Str("dev")>> >>),
     Obj(<< <<"company", Null>> >>),
     Str("C")}

LegacyListDocs ==
    {MkObj(<< <<"conf", Null>>, <<"basic", Null>>, <<"exp", x>>, <<"workExperience", w>>,
              <<"skill", k>>, <<"evaluation", v>>, <<"honors", h>> >>) :
        x \in {Absent, Str("x")} \cup {Arr(l) : l \in SeqsUpTo(LegacyProjects, MaxItems)},
        w \in {Absent}, k \in {Absent, Arr(<<Str("Go")>>)}, v \in {Absent, Str(" me "), Str(" ")},
        h \in {Absent}}
      \cup
    {MkObj(<< <<"conf", Null>>, <<"basic", Null>>, <<"workExperience", w>>, <<"honors", h>> >>) :
        w \in {Absent} \cup {Arr(l) : l \in SeqsUpTo(LegacyWorkItems, MaxItems)},
        h \in {Absent, Arr(<<Str("Prize"), Obj(<< <<"time", Str("2020")>> >>)>>),
               Arr(<<Obj(<< <<"time", Str("2020")>> >>)>>)}}

\* Legacy documents with a theme color of every kind.
LegacyColorDocs ==
    {Obj(<< <<"conf", MkObj(<< <<"mainThemeColor", c>> >>)>>, <<"basic", Obj(<<>>)>> >>) :
        c \in {Absent, Str("abc"), Str(" #fff "), Str("#"), Str("  "), Num(123),
               Bool(TRUE), Null}}

\* The two keys of each contact channel.
ContactKeys ==
    {<<"wechat", "wechatText">>, <<"phone", "phoneNumber">>, <<"email", "emailText">>}

\* Legacy documents in which one channel takes every pairing of a primary
\* and an alias value, the other two channels keeping one spelling each.
LegacyContactDocs ==
    {Obj(<< <<"conf", Obj(<<>>)>>,
            <<"basic", Obj(spread(<< <<"wechatText", Str("wx")>>, <<"phone", Num(123)>>,
                                     <<"emailText", Str("a@b.c")>> >>,
                                  MkObj(<< <<c[1], v>>, <<c[2], w>> >>).e))>> >>) :
        c \in ContactKeys,
        v \in {Absent, Null, Bool(TRUE), Str(" id "), Str(""), Str("  "), Num(0), Num(5)},
        w \in {Absent, Str(" alt "), Num(7), Arr(<<Str("x")>>)}}

LegacyDocs ==
    MarkerDocs \cup OverallDocs \cup LegacyListDocs \cup LegacyColorDocs \cup LegacyContactDocs

RawDocs == RootShapes \cup ModernDocs \cup LegacyDocs

(***************************************************************************)
(* The state machine                                                       *)
(***************************************************************************)

\* normalizeOrder is not running.
IdleOrder == orderInput = <<>> /\ orderOutput = <<>> /\ orderPc = "idle"

\* normalizeTechStack is not running.
IdleTech == techInput = Undefined /\ techOutput = <<>> /\ techPc = "idle"

\* normalizeConfig is not running.
IdleConfig ==
    raw = Undefined /\ config = Undefined /\ configAgain = Undefined /\ configPc = "idle"

\* The invocations of exportResumePdf, each with the host it creates.
Exports == 1..MaxExports

\* No export has been started.
IdleExport ==
    /\ exportPc = [e \in Exports |-> "idle"]
    /\ exportHosts = {}
    /\ exportLog = [e \in Exports |-> <<>>]
    /\ exportResult = [e \in Exports |-> "none"]
    /\ toasts = <<>>

\* loadConfig is not running.
IdleLoad ==
    /\ loadQuery = Null
    /\ loadBase = ""
    /\ loadEmbedded = ""
    /\ loadIndex = 0
    /\ loadTried = <<>>
    /\ loadResult = Undefined
    /\ loadPc = "idle"

\* generateMarkdown is not running.
IdleMarkdown ==
    /\ mdConfig = Undefined
    /\ mdFallbackHtml = <<>>
    /\ mdNow = <<0, 0>>
    /\ mdText = ""
    /\ mdNowAgain = <<0, 0>>
    /\ mdTextAgain = ""
    /\ mdPc = "idle"

BlockEdges == {k * CutStep : k \in 0..MaxCutSteps}

\* The planner is not running.
IdlePaging ==
    /\ totalHeightPx = 0
    /\ pageHeightPx = 1
    /\ safeCuts = <<>>
    /\ cursor = 0
    /\ segments = <<>>
    /\ pagePc = "idle"

InitPaging ==
    /\ totalHeightPx \in {k * TotalStep : k \in 0..MaxTotalSteps}
    /\ pageHeightPx \in 1..MaxPageHeight
    /\ \E edges \in SUBSET BlockEdges : safeCuts = collectSafeCuts(edges, totalHeightPx)
    /\ cursor = 0
    /\ segments = <<>>
    /\ pagePc = "loop"
    /\ IdleOrder /\ IdleTech /\ IdleConfig
    /\ IdleExport /\ IdleLoad /\ IdleMarkdown

\* while (cursor < totalHeightPx) is false: return segments.
PagedCutsReturn ==
    /\ pagePc = "loop"
    /\ ~(cursor < totalHeightPx)
    /\ pagePc' = "done"
    /\ UNCHANGED <<totalHeightPx, pageHeightPx, safeCuts, cursor, segments>>
    /\ UNCHANGED <<orderVars, techVars, configVars, exportVars, loadVars, markdownVars>>

\* A plausible slip: the final segment is not clamped to the document's end.
PagedCutsFinalUnclamped ==
    /\ pagePc = "loop"
    /\ cursor < totalHeightPx
    /\ cursor + pageHeightPx >= totalHeightPx
    /\ segments' = Append(segments, <<cursor, cursor + pageHeightPx>>)
    /\ pagePc' = "done"
    /\ UNCHANGED <<totalHeightPx, pageHeightPx, safeCuts, cursor>>
    /\ UNCHANGED <<orderVars, techVars, configVars, exportVars, loadVars, markdownVars>>

\* target >= totalHeightPx: push the final segment and break.
PagedCutsFinal ==
    /\ pagePc = "loop"
    /\ cursor < totalHeightPx
    /\ cursor + pageHeightPx >= totalHeightPx
    /\ segments' = Append(segments, <<cursor, totalHeightPx>>)
    /\ pagePc' = "done"
    /\ UNCHANGED <<totalHeightPx, pageHeightPx, safeCuts, cursor>>
    /\ UNCHANGED <<orderVars, techVars, configVars, exportVars, loadVars, markdownVars>>

\* Otherwise: push [cursor, next) and advance the cursor.
PagedCutsCut ==
    /\ pagePc = "loop"
    /\ cursor < totalHeightPx
    /\ cursor + pageHeightPx < totalHeightPx
    /\ LET next == nextCut(safeCuts, cursor, pageHeightPx, totalHeightPx)
       IN  /\ segments' = Append(segments, <<cursor, next>>)
           /\ cursor' = next
    /\ UNCHANGED <<totalHeightPx, pageHeightPx, safeCuts, pagePc>>
    /\ UNCHANGED <<orderVars, techVars, configVars, exportVars, loadVars, markdownVars>>

NextPaging == PagedCutsReturn \/ PagedCutsFinal \/ PagedCutsCut

SpecPaging == InitPaging /\ [][NextPaging]_vars

\* getPagedCuts is synchronous code: once called, its loop keeps running.
SpecPagingFair == InitPaging /\ [][NextPaging]_vars /\ WF_vars(NextPaging)

\* The planner on a document of 1500 px (or an empty one) with block edges
\* among 400, 820 and 1200 and page heights around 800.
InitPagingFixture ==
    /\ totalHeightPx \in {0, 1500}
    /\ pageHeightPx \in (800 - FixtureSpread)..(800 + FixtureSpread)
    /\ \E edges \in SUBSET {400, 820, 1200} :
          safeCuts = collectSafeCuts(edges, totalHeightPx)
    /\ cursor = 0
    /\ segments = <<>>
    /\ pagePc = "loop"
    /\ IdleOrder /\ IdleTech /\ IdleConfig
    /\ IdleExport /\ IdleLoad /\ IdleMarkdown

SpecPagingFixture == InitPagingFixture /\ [][NextPaging]_vars

InitOrder ==
    /\ orderInput \in SeqsUpTo(OrderKeys, MaxOrderLen)
    /\ orderOutput = <<>>
    /\ orderPc = "call"
    /\ IdlePaging /\ IdleTech /\ IdleConfig
    /\ IdleExport /\ IdleLoad /\ IdleMarkdown

\* normalizeOrder(order)
NormalizeOrder ==
    /\ orderPc = "call"
    /\ orderOutput' = normalizeOrder(orderInput)
    /\ orderPc' = "done"
    /\ UNCHANGED <<orderInput, pagingVars, techVars, configVars, exportVars, loadVars, markdownVars>>

NextOrder == NormalizeOrder

SpecOrder == InitOrder /\ [][NextOrder]_vars

InitTech ==
    /\ techInput \in TechInputs
    /\ techOutput = <<>>
    /\ techPc = "call"
    /\ IdlePaging /\ IdleOrder /\ IdleConfig
    /\ IdleExport /\ IdleLoad /\ IdleMarkdown

\* normalizeTechStack(input)
NormalizeTechStack ==
    /\ techPc = "call"
    /\ techOutput' = normalizeTechStack(techInput)
    /\ techPc' = "done"
    /\ UNCHANGED <<techInput, pagingVars, orderVars, configVars, exportVars, loadVars, markdownVars>>

NextTech == NormalizeTechStack

SpecTech == InitTech /\ [][NextTech]_vars

InitConfig ==
    /\ raw \in RawDocs
    /\ config = Undefined
    /\ configAgain = Undefined
    /\ configPc = "call"
    /\ IdlePaging /\ IdleOrder /\ IdleTech
    /\ IdleExport /\ IdleLoad /\ IdleMarkdown

\* normalizeConfig(raw) returns a document.
NormalizeConfigReturns ==
    /\ configPc = "call"
    /\ normalizeConfig(raw) # TypeError
    /\ config' = normalizeConfig(raw)
    /\ configPc' = "returned"
    /\ UNCHANGED <<raw, configAgain, pagingVars, orderVars, techVars, exportVars, loadVars, markdownVars>>

\* normalizeConfig(raw) throws.
NormalizeConfigThrows ==
    /\ configPc = "call"
    /\ normalizeConfig(raw) = TypeError
    /\ config' = TypeError
    /\ configPc' = "threw"
    /\ UNCHANGED <<raw, configAgain, pagingVars, orderVars, techVars, exportVars, loadVars, markdownVars>>

\* The returned document is normalized once more.
NormalizeConfigAgain ==
    /\ configPc = "returned"
    /\ configAgain' = normalizeConfig(config)
    /\ configPc' = "again"
    /\ UNCHANGED <<raw, config, pagingVars, orderVars, techVars, exportVars, loadVars, markdownVars>>

NextConfig == NormalizeConfigReturns \/ NormalizeConfigThrows \/ NormalizeConfigAgain

SpecConfig == InitConfig /\ [][NextConfig]_vars

(***************************************************************************)
(* exportResumePdf and the download button's click handler.  An invocation *)
(* runs to its first await in the click's task; each continuation runs     *)
(* when the awaited promise settles, so invocations started by several     *)
(* clicks interleave at the awaits.                                        *)
(***************************************************************************)

\* The messages of the handler (Chinese in the source).
ToastGenerating == "ZhengZaiShengCheng PDF..."
ToastDone == "PDF DaoChuWanCheng"
ToastFailed == "PDF DaoChuShiBai, QingChongShi"

\* A plausible slip: the host is looked up in the document and the first
\* one found is removed, instead of the one this invocation created.
hostRemoveBySelector(hosts, e) ==
    IF hosts = {} THEN hosts
    ELSE hosts \ {CHOOSE h \in hosts : \A g \in hosts : h <= g}

\* host.remove(): `host` is the element this invocation created.
hostRemove(hosts, e) == hosts \ {e}

\* A plausible slip: the handler shows the completion message after the
\* try/catch, whatever the outcome.
exportSettlesThenDone(e, result, shown) ==
    /\ exportHosts' = exportHosts \ {e}
    /\ exportPc' = [exportPc EXCEPT ![e] = "settled"]
    /\ exportResult' = [exportResult EXCEPT ![e] = result]
    /\ toasts' = shown \o (IF result = "resolved" THEN <<>> ELSE <<ToastFailed>>) \o <<ToastDone>>

\* The invocation leaves exportResumePdf (through `finally`, or through the
\* missing-node branch): its host is removed, its promise settles and the
\* handler shows the completion or the failure message.
exportSettles(e, result, shown) ==
    /\ exportHosts' = hostRemove(exportHosts \cup {e}, e)
    /\ exportPc' = [exportPc EXCEPT ![e] = "settled"]
    /\ exportResult' = [exportResult EXCEPT ![e] = result]
    /\ toasts' = shown \o (IF result = "resolved" THEN <<ToastDone>> ELSE <<ToastFailed>>)

notExportVars == <<pagingVars, orderVars, techVars, configVars, loadVars, markdownVars>>

InitExport ==
    /\ IdleExport
    /\ IdlePaging /\ IdleOrder /\ IdleTech /\ IdleConfig /\ IdleLoad /\ IdleMarkdown

\* A click: the handler shows the progress message and calls
\* exportResumePdf, which appends its host, finds the export node and
\* suspends at `await document.fonts.ready`.
ExportStart(e) ==
    /\ exportPc[e] = "idle"
    /\ toasts' = Append(toasts, ToastGenerating)
    /\ exportHosts' = exportHosts \cup {e}
    /\ exportPc' = [exportPc EXCEPT ![e] = "fonts"]
    /\ UNCHANGED <<exportLog, exportResult, notExportVars>>

\* A click where host.querySelector('#exportPaper') finds nothing: the host
\* is removed and the error thrown.
ExportStartNoPaper(e) ==
    /\ exportPc[e] = "idle"
    /\ exportSettles(e, "rejected", Append(toasts, ToastGenerating))
    /\ UNCHANGED <<exportLog, notExportVars>>

\* document.fonts.ready is fulfilled; the invocation suspends at
\* `await waitNextFrame()`.
ExportFontsReady(e) ==
    /\ exportPc[e] = "fonts"
    /\ exportPc' = [exportPc EXCEPT ![e] = "frame"]
    /\ exportLog' = [exportLog EXCEPT ![e] = Append(@, "fonts")]
    /\ UNCHANGED <<exportHosts, exportResult, toasts, notExportVars>>

\* document.fonts.ready is rejected.
ExportFontsFail(e) ==
    /\ exportPc[e] = "fonts"
    /\ exportSettles(e, "rejected", toasts)
    /\ UNCHANGED <<exportLog, notExportVars>>

\* The animation frame callback runs; html2canvas is called and awaited.
ExportFrame(e) ==
    /\ exportPc[e] = "frame"
    /\ exportPc' = [exportPc EXCEPT ![e] = "raster"]
    /\ exportLog' = [exportLog EXCEPT ![e] = Append(@, "frame")]
    /\ UNCHANGED <<exportHosts, exportResult, toasts, notExportVars>>

\* html2canvas rejects.
ExportRasterFails(e) ==
    /\ exportPc[e] = "raster"
    /\ exportSettles(e, "rejected", toasts)
    /\ UNCHANGED <<exportLog, notExportVars>>

\* A plausible slip: the loop runs from the last segment to the first.
pagesAddedBackwards(n) == [i \in 1..n |-> "page" \o natToString(n + 1 - i)]

\* The pages of the first n segments, added by the loop in index order.
pagesAdded(n) == [i \in 1..n |-> "page" \o natToString(i)]

\* html2canvas resolves; the pages are cut and added and the PDF is saved,
\* all in one task.
ExportSaved(e) ==
    /\ exportPc[e] = "raster"
    /\ \E n \in 0..MaxExportPages :
          exportLog' = [exportLog EXCEPT ![e] = @ \o <<"raster">> \o pagesAdded(n) \o <<"save">>]
    /\ exportSettles(e, "resolved", toasts)
    /\ UNCHANGED notExportVars

\* html2canvas resolves and a later step throws: new jsPDF, getContext
\* returning null, drawImage, toDataURL, addImage or save, after k pages.
ExportAssemblyFails(e) ==
    /\ exportPc[e] = "raster"
    /\ \E k \in 0..MaxExportPages :
          exportLog' = [exportLog EXCEPT ![e] = @ \o <<"raster">> \o pagesAdded(k)]
    /\ exportSettles(e, "rejected", toasts)
    /\ UNCHANGED notExportVars

NextExport ==
    \E e \in Exports :
        \/ ExportStart(e)
        \/ ExportStartNoPaper(e)
        \/ ExportFontsReady(e)
        \/ ExportFontsFail(e)
        \/ ExportFrame(e)
        \/ ExportRasterFails(e)
        \/ ExportSaved(e)
        \/ ExportAssemblyFails(e)

SpecExport == InitExport /\ [][NextExport]_vars

(***************************************************************************)
(* loadConfig                                                              *)
(***************************************************************************)

RECURSIVE stripLeading(_, _)
\* s.replace(/^c+/, '')
stripLeading(s, c) ==
    IF Len(s) > 0 /\ Chr(s, 1) = c THEN stripLeading(SubSeq(s, 2, Len(s)), c) ELSE s

RECURSIVE stripTrailing(_, _)
\* s.replace(/c+$/, '')
stripTrailing(s, c) ==
    IF Len(s) > 0 /\ Chr(s, Len(s)) = c THEN stripTrailing(SubSeq(s, 1, Len(s) - 1), c) ELSE s

\* query.get('config')?.trim(): undefined when the query has no such
\* parameter.
fromQueryOf(query) == IF query = Null THEN Undefined ELSE Str(trim(query.s))

\* Array.from(new Set([fromQuery, base + '/' + fromQuery])): the path
\* verbatim, then the path under the base path, unless the two are equal.
candidatesOf(fromQuery, base) ==
    LET relative == stripTrailing(base, "/") \o "/" \o stripLeading(fromQuery, "/")
    IN  IF relative = fromQuery THEN <<fromQuery>> ELSE <<fromQuery, relative>>

\* parseYaml(text), a library call: the parsed document is represented by
\* the text it was parsed from (every text of the model is well-formed).
parseYaml(text) == [k |-> "yaml", text |-> text]

\* new Error(message); the messages are Chinese in the source.
ErrorOf(message) == [k |-> "Error", message |-> message]
NotFoundMessage == "WeiZhaoDaoZhiDingPeiZhiWenJian: "
NoConfigMessage == "WeiZhaoDaoKeYongPeiZhiWenJian, QingTiGong resume.yml"

\* What fetch or Response.text() rejects with.
FetchError == [k |-> "TypeError", message |-> "Failed to fetch"]

\* The values of the `config` query parameter, the base paths, the texts a
\* server answers with and the embedded texts.
LoadQueries == {Null, Str(""), Str(" "), Str("r.yml"), Str("/r.yml"), Str(" a/r.yml ")}
LoadBases == {"/", "/resume-page/"}
LoadBodies == {"", "  ", "name: A", "name: B"}
LoadEmbeddedTexts == {" ", "name: E"}

notLoadVars == <<pagingVars, orderVars, techVars, configVars, exportVars, markdownVars>>

InitLoad ==
    /\ loadQuery \in LoadQueries
    /\ loadBase \in LoadBases
    /\ loadEmbedded \in LoadEmbeddedTexts
    /\ loadIndex = 0
    /\ loadTried = <<>>
    /\ loadResult = Undefined
    /\ loadPc = "call"
    /\ IdlePaging /\ IdleOrder /\ IdleTech /\ IdleConfig /\ IdleExport /\ IdleMarkdown

\* The candidates of the running call.
loadCandidates == candidatesOf(fromQueryOf(loadQuery).s, loadBase)

\* if (fromQuery): the candidates are built and the first fetch is awaited.
LoadFromQuery ==
    /\ loadPc = "call"
    /\ Truthy(fromQueryOf(loadQuery))
    /\ loadIndex' = 1
    /\ loadPc' = "fetch"
    /\ UNCHANGED <<loadQuery, loadBase, loadEmbedded, loadTried, loadResult, notLoadVars>>

\* No path in the query: the embedded text is parsed.
LoadEmbedded ==
    /\ loadPc = "call"
    /\ ~Truthy(fromQueryOf(loadQuery))
    /\ Len(trim(loadEmbedded)) > 0
    /\ loadResult' = parseYaml(loadEmbedded)
    /\ loadPc' = "returned"
    /\ UNCHANGED <<loadQuery, loadBase, loadEmbedded, loadIndex, loadTried, notLoadVars>>

\* No path in the query and a blank embedded text.
LoadEmbeddedBlank ==
    /\ loadPc = "call"
    /\ ~Truthy(fromQueryOf(loadQuery))
    /\ Len(trim(loadEmbedded)) = 0
    /\ loadResult' = ErrorOf(NoConfigMessage)
    /\ loadPc' = "threw"
    /\ UNCHANGED <<loadQuery, loadBase, loadEmbedded, loadIndex, loadTried, notLoadVars>>

\* The loop has a candidate left and its fetch is under way.
LoadFetching == loadPc = "fetch" /\ loadIndex <= Len(loadCandidates)

\* await fetch(path) rejects (network failure, blocked request): the
\* rejection leaves the loop and loadConfig.
LoadFetchRejects ==
    /\ LoadFetching
    /\ loadTried' = Append(loadTried, <<loadCandidates[loadIndex], "rejected", "">>)
    /\ loadResult' = FetchError
    /\ loadPc' = "threw"
    /\ UNCHANGED <<loadQuery, loadBase, loadEmbedded, loadIndex, notLoadVars>>

\* if (!result.ok) continue
LoadFetchNotOk ==
    /\ LoadFetching
    /\ loadTried' = Append(loadTried, <<loadCandidates[loadIndex], "notOk", "">>)
    /\ loadIndex' = loadIndex + 1
    /\ UNCHANGED <<loadQuery, loadBase, loadEmbedded, loadResult, loadPc, notLoadVars>>

\* await result.text() rejects (the connection breaks while the body is read).
LoadBodyRejects ==
    /\ LoadFetching
    /\ loadTried' = Append(loadTried, <<loadCandidates[loadIndex], "bodyRejected", "">>)
    /\ loadResult' = FetchError
    /\ loadPc' = "threw"
    /\ UNCHANGED <<loadQuery, loadBase, loadEmbedded, loadIndex, notLoadVars>>

\* if (!text.trim()) continue
LoadBodyBlank ==
    /\ LoadFetching
    /\ \E text \in LoadBodies :
          /\ Len(trim(text)) = 0
          /\ loadTried' = Append(loadTried, <<loadCandidates[loadIndex], "blank", text>>)
    /\ loadIndex' = loadIndex + 1
    /\ UNCHANGED <<loadQuery, loadBase, loadEmbedded, loadResult, loadPc, notLoadVars>>

\* return parseYaml(text)
LoadReturns ==
    /\ LoadFetching
    /\ \E text \in LoadBodies :
          /\ Len(trim(text)) > 0
          /\ loadTried' = Append(loadTried, <<loadCandidates[loadIndex], "document", text>>)
          /\ loadResult' = parseYaml(text)
    /\ loadPc' = "returned"
    /\ UNCHANGED <<loadQuery, loadBase, loadEmbedded, loadIndex, notLoadVars>>

\* The loop is over: throw new Error(... fromQuery).
LoadNotFound ==
    /\ loadPc = "fetch"
    /\ loadIndex > Len(loadCandidates)
    /\ loadResult' = ErrorOf(NotFoundMessage \o fromQueryOf(loadQuery).s)
    /\ loadPc' = "threw"
    /\ UNCHANGED <<loadQuery, loadBase, loadEmbedded, loadIndex, loadTried, notLoadVars>>

NextLoad ==
    \/ LoadFromQuery
    \/ LoadEmbedded
    \/ LoadEmbeddedBlank
    \/ LoadFetchRejects
    \/ LoadFetchNotOk
    \/ LoadBodyRejects
    \/ LoadBodyBlank
    \/ LoadReturns
    \/ LoadNotFound

SpecLoad == InitLoad /\ [][NextLoad]_vars

(***************************************************************************)
(* The markdown export and the education fallback of the rendered view.    *)
(* A date is <<year, month>> with the month counted from 0, as getMonth    *)
(* gives it.  Chinese labels are written in pinyin, the fullwidth          *)
(* parentheses as "{" and "}", the fullwidth colon as ": ", the fullwidth  *)
(* comma as "; ", the middle dot as " . ".                                 *)
(***************************************************************************)

\* s.includes(sub)
includes(s, sub) ==
    \E i \in 1..(Len(s) - Len(sub) + 1) : SubSeq(s, i, i + Len(sub) - 1) = sub

isDigit(c) == \E i \in 1..Len(Digits) : Chr(Digits, i) = c

RECURSIVE parseNat(_)
\* Number(digits) for a string of decimal digits
parseNat(digits) ==
    IF Len(digits) = 0 THEN 0
    ELSE parseNat(SubSeq(digits, 1, Len(digits) - 1)) * 10
         + ((CHOOSE i \in 1..Len(Digits) : Chr(Digits, i) = Chr(digits, Len(digits))) - 1)

\* new Date(year, monthIndex, 1) as <<getFullYear(), getMonth()>>: a month
\* index beyond 11 carries into the year, a year below 100 means 19xx.
dateOf(year, monthIndex) ==
    LET total == (IF year <= 99 THEN 1900 + year ELSE year) * 12 + monthIndex
    IN  <<total \div 12, total % 12>>

\* The words for "until now" ("zhi jin", "xian zai").
NowWords == {"ZhiJin", "XianZai"}

\* The positions of s at which four digits in a row begin.
fourDigitStarts(s) ==
    {i \in 1..(Len(s) - 3) : \A j \in i..(i + 3) : isDigit(Chr(s, j))}

\* Math.max(0, Number(match[2] ?? 1) - 1) for the group (\d{1,2})? tried at
\* position p of s.
monthIndexAt(s, p) ==
    LET count == IF p <= Len(s) /\ isDigit(Chr(s, p))
                 THEN (IF p + 1 <= Len(s) /\ isDigit(Chr(s, p + 1)) THEN 2 ELSE 1)
                 ELSE 0
    IN  IF count = 0 THEN 0
        ELSE IF parseNat(SubSeq(s, p, p + count - 1)) = 0 THEN 0
        ELSE parseNat(SubSeq(s, p, p + count - 1)) - 1

\* The date of the match of /(\d{4})\D?(\d{1,2})?/ that begins at position
\* i of s: four digits, one non-digit if it follows, up to two digits.
dateMatchedAt(s, i) ==
    dateOf(parseNat(SubSeq(s, i, i + 3)),
           monthIndexAt(s, IF i + 4 <= Len(s) /\ ~isDigit(Chr(s, i + 4)) THEN i + 5 ELSE i + 4))

\* parseYearMonth: <<>> for undefined, else the date; the match is the
\* leftmost one.
parseYearMonth(input, now) ==
    IF ~Truthy(input) THEN <<>>
    ELSE IF \E w \in NowWords : includes(input.s, w) THEN now
    ELSE IF fourDigitStarts(input.s) = {} THEN <<>>
    ELSE dateMatchedAt(input.s,
                       CHOOSE m \in fourDigitStarts(input.s) :
                           \A n \in fourDigitStarts(input.s) : m <= n)

\* The text of a value inside a template literal or a join.
templateText(v) == IF v.k = "string" THEN v.s ELSE "undefined"

\* [start, end].filter(Boolean).join(' - ')
joinGivenText(start, end) ==
    LET given == SelectSeq(<<start, end>>, LAMBDA v : Truthy(v))
    IN  join([i \in 1..Len(given) |-> templateText(given[i])], " - ")

\* The months from one date to another, 0 when negative.
monthsBetween(from, to) ==
    IF (to[1] - from[1]) * 12 + (to[2] - from[2]) < 0 THEN 0
    ELSE (to[1] - from[1]) * 12 + (to[2] - from[2])

\* The duration of getExperienceText for a number of months.
durationText(monthDiff) ==
    (IF monthDiff \div 12 > 0 THEN natToString(monthDiff \div 12) \o "Nian" ELSE "")
    \o (IF monthDiff % 12 > 0 THEN natToString(monthDiff % 12) \o "GeYue"
        ELSE IF monthDiff \div 12 = 0 THEN "BuZu1Nian" ELSE "")

\* The text getExperienceText returns once both dates are parsed.
experienceText(start, end, dateStart, effectiveEnd) ==
    start.s
    \o (IF Truthy(end) THEN " - " \o end.s ELSE "")
    \o (IF Len(durationText(monthsBetween(dateStart, effectiveEnd))) > 0
        THEN "{" \o durationText(monthsBetween(dateStart, effectiveEnd)) \o "}"
        ELSE "")

\* getExperienceText; `now` is what new Date() gives during the call.
getExperienceText(start, end, now) ==
    IF ~Truthy(start) THEN joinGivenText(start, end)
    ELSE IF parseYearMonth(start, now) = <<>> THEN joinGivenText(start, end)
    ELSE experienceText(start, end, parseYearMonth(start, now),
                        IF parseYearMonth(end, now) = <<>> THEN now
                        ELSE parseYearMonth(end, now))

\* s.slice(-n)
sliceLast(s, n) == IF Len(s) <= n THEN s ELSE SubSeq(s, Len(s) - n + 1, Len(s))

maskPhone(phone) ==
    LET cleaned == removeChars(phone, Whitespace)
    IN  IF Len(cleaned) < 7 THEN cleaned
        ELSE SubSeq(cleaned, 1, 3) \o "****" \o sliceLast(cleaned, 4)

maskEmail(email) ==
    LET pieces == split(email, {"@"}, FALSE)
        name == pieces[1]
        domain == IF Len(pieces) >= 2 THEN pieces[2] ELSE ""
    IN  IF Len(name) = 0 \/ Len(domain) = 0 THEN email
        ELSE IF Len(name) < 3 THEN Chr(name, 1) \o "***@" \o domain
        ELSE Chr(name, 1) \o "***" \o sliceLast(name, 1) \o "@" \o domain

maskWeChat(wechat) ==
    IF Len(wechat) <= 4
    THEN (IF Len(wechat) = 0 THEN "*" ELSE Chr(wechat, 1)) \o "***"
    ELSE SubSeq(wechat, 1, 2) \o "***" \o sliceLast(wechat, 2)

RECURSIVE escapeHtml(_)
\* escapeHtml, for &, <, > and the apostrophe (the double quote, escaped
\* as well in the source, does not occur in the texts of the model).
escapeHtml(s) ==
    IF Len(s) = 0 THEN ""
    ELSE (CASE Chr(s, 1) = "&" -> "&amp;"
            [] Chr(s, 1) = "<" -> "&lt;"
            [] Chr(s, 1) = ">" -> "&gt;"
            [] Chr(s, 1) = "'" -> "&#39;"
            [] OTHER -> Chr(s, 1)) \o escapeHtml(SubSeq(s, 2, Len(s)))

\* The escaped parts of a summary joined by the middle dot.
summaryParts(summary) ==
    LET fields == <<Get(summary, "school"), Get(summary, "major"), Get(summary, "degree"),
                    Get(summary, "graduationYear")>>
        given == SelectSeq(fields, LAMBDA v : Truthy(v))
    IN  join([i \in 1..Len(given) |-> escapeHtml(given[i].s)], " . ")

renderEducationSummary(summary) ==
    IF ~Truthy(summary) THEN ""
    ELSE IF Truthy(Get(summary, "raw")) THEN escapeHtml(Get(summary, "raw").s)
    ELSE summaryParts(summary)

\* config.education?.enabled && config.education.items.length > 0
hasEducationModule(document) ==
    LET education == Get(document, "education")
    IN  /\ Truthy(education)
        /\ Get(education, "enabled") = Bool(TRUE)
        /\ Len(Get(education, "items").a) > 0

\* renderSection(title, content), as the pair it is built from.
renderSection(title, content) == <<title, content>>

\* renderBasicEducationSection: <<>> for the empty string.
renderBasicEducationSection(document) ==
    LET summary == Get(Get(document, "basic"), "educationSummary")
    IN  IF hasEducationModule(document) \/ ~Truthy(summary) THEN <<>>
        ELSE LET text == IF Truthy(Get(summary, "raw")) THEN escapeHtml(Get(summary, "raw").s)
                         ELSE summaryParts(summary)
             IN  IF Len(text) = 0 THEN <<>>
                 ELSE renderSection(
                          templateText(Get(Get(Get(document, "site"), "moduleTitles"), "education")),
                          "<article class='entry'><h3>" \o text \o "</h3></article>")

RECURSIVE flatten(_)
\* lines.push(...) over a sequence of groups of lines
flatten(groups) ==
    IF Len(groups) = 0 THEN <<>> ELSE Head(groups) \o flatten(Tail(groups))

\* ` (${time})` when the field is given
inParens(v) == IF Truthy(v) THEN " (" \o v.s \o ")" ELSE ""

\* `  - ${entry}` for each entry
bullets(entries) == [i \in 1..Len(entries) |-> "  - " \o entries[i].s]

\* The section is shown: it is there, enabled and has items.
sectionShown(sect) ==
    Truthy(sect) /\ Get(sect, "enabled") = Bool(TRUE) /\ Len(Get(sect, "items").a) > 0

\* The heading of a module: '', `## ${title}`
headingLines(document, key) ==
    <<"", "## " \o templateText(Get(Get(Get(document, "site"), "moduleTitles"), key))>>

educationItemLines(item) ==
    LET start == Get(item, "start")
        end == Get(item, "end")
        details == SelectSeq(
            <<IF Truthy(Get(item, "degree")) THEN "XueLi: " \o Get(item, "degree").s ELSE "",
              IF Truthy(Get(item, "major")) THEN "ZhuanYe: " \o Get(item, "major").s ELSE "",
              IF Truthy(Get(item, "gpa")) THEN "GPA: " \o Get(item, "gpa").s ELSE "",
              IF Truthy(Get(item, "rank")) THEN "PaiMing: " \o Get(item, "rank").s ELSE "">>,
            LAMBDA t : Len(t) > 0)
        detailLine == join(details, "; ")
        courses == IF Truthy(Get(item, "courses")) THEN Get(item, "courses").a ELSE <<>>
    IN  <<"- **" \o Get(item, "school").s \o "** "
          \o (IF Truthy(start) \/ Truthy(end)
              THEN "(" \o Nullish(start, Str("")).s \o " - " \o Nullish(end, Str("")).s \o ")"
              ELSE "")>>
        \o (IF Len(detailLine) > 0 THEN <<"  - " \o detailLine>> ELSE <<>>)
        \o [i \in 1..Len(courses) |->
               "  - KeCheng: " \o Get(courses[i], "name").s
               \o (IF Truthy(Get(courses[i], "credit"))
                   THEN "{" \o Get(courses[i], "credit").s \o " XueFen}" ELSE "")]

skillLines(skills) ==
    LET items == Get(skills, "items").a
        numbered == Truthy(Get(skills, "ordered")) /\ ~Truthy(Get(skills, "hideIndex"))
    IN  [i \in 1..Len(items) |->
            IF numbered THEN natToString(i) \o ". " \o items[i].s ELSE "- " \o items[i].s]

projectItemLines(item) ==
    <<"- **" \o Get(item, "name").s \o "**" \o inParens(Get(item, "time"))>>
    \o (IF Truthy(Get(item, "description"))
        THEN <<"  - XiangMuMiaoShu: " \o Get(item, "description").s>> ELSE <<>>)
    \o bullets(Get(item, "responsibilities").a)
    \o (IF Len(Get(item, "techStack").a) > 0
        THEN <<"  - JiShuZhan: "
               \o join([i \in 1..Len(Get(item, "techStack").a) |-> Get(item, "techStack").a[i].s],
                       " / ")>>
        ELSE <<>>)

workItemLines(item) ==
    <<"- **" \o Get(item, "company").s \o "**" \o inParens(Get(item, "time"))>>
    \o (IF Truthy(Get(item, "position"))
        THEN <<"  - GangWei: " \o Get(item, "position").s>> ELSE <<>>)
    \o bullets(Get(item, "achievements").a)

honorItemLines(item) == <<"- " \o Get(item, "name").s \o inParens(Get(item, "time"))>>

\* The star of the source is written "*".
openSourceItemLines(item) ==
    LET title == IF Truthy(Get(item, "url"))
                 THEN "[" \o Get(item, "name").s \o "](" \o Get(item, "url").s \o ")"
                 ELSE Get(item, "name").s
    IN  <<"- " \o title
          \o (IF Truthy(Get(item, "stars")) THEN " (* " \o Get(item, "stars").s \o ")" ELSE "")>>
        \o (IF Truthy(Get(item, "description"))
            THEN <<"  - XiangMuMiaoShu: " \o Get(item, "description").s>> ELSE <<>>)
        \o bullets(Get(item, "achievements").a)

\* The lines one iteration of the loop over config.site.order pushes.
moduleLines(document, moduleKey) ==
    LET itemsOf(key) == Get(Get(document, key), "items").a
        each(key, linesOf(_)) ==
            IF sectionShown(Get(document, key))
            THEN headingLines(document, key)
                 \o flatten([i \in 1..Len(itemsOf(key)) |-> linesOf(itemsOf(key)[i])])
            ELSE <<>>
        profile == Get(document, "profile")
    IN  CASE moduleKey = Str("education") -> each("education", educationItemLines)
          [] moduleKey = Str("skills") ->
                IF sectionShown(Get(document, "skills"))
                THEN headingLines(document, "skills") \o skillLines(Get(document, "skills"))
                ELSE <<>>
          [] moduleKey = Str("projects") -> each("projects", projectItemLines)
          [] moduleKey = Str("profile") ->
                IF Truthy(profile) /\ Get(profile, "enabled") = Bool(TRUE)
                   /\ Truthy(Get(profile, "content"))
                THEN headingLines(document, "profile") \o <<"", Get(profile, "content").s>>
                ELSE <<>>
          [] moduleKey = Str("work") -> each("work", workItemLines)
          [] moduleKey = Str("honors") -> each("honors", honorItemLines)
          [] moduleKey = Str("openSource") -> each("openSource", openSourceItemLines)
          [] OTHER -> <<>>

\* The lines below the basic-information heading.
baseInfoLines(document, now) ==
    LET basic == Get(document, "basic")
        contacts == Get(basic, "contacts")
        phone == Get(contacts, "phone")
        wechat == Get(contacts, "wechat")
        email == Get(contacts, "email")
        links == Get(basic, "addressLinks").a
        experience == getExperienceText(Get(Get(basic, "workPeriod"), "start"),
                                        Get(Get(basic, "workPeriod"), "end"), now)
        edu == renderEducationSummary(Get(basic, "educationSummary"))
    IN  (IF Truthy(Get(basic, "gender")) THEN <<"- XingBie: " \o Get(basic, "gender").s>> ELSE <<>>)
        \o (IF Truthy(Get(basic, "age")) THEN <<"- NianLing: " \o Get(basic, "age").s>> ELSE <<>>)
        \o (IF Len(experience) > 0 THEN <<"- GongZuoNianXian: " \o experience>> ELSE <<>>)
        \o (IF Truthy(phone)
            THEN <<"- DianHua: " \o maskPhone(phone.s) \o " ([BoDa](tel:" \o phone.s \o "))">>
            ELSE <<>>)
        \o (IF Truthy(wechat) THEN <<"- WeiXin: " \o maskWeChat(wechat.s)>> ELSE <<>>)
        \o (IF Truthy(email)
            THEN <<"- YouXiang: " \o maskEmail(email.s)
                   \o " ([FaSongYouJian](mailto:" \o email.s \o "))">>
            ELSE <<>>)
        \o (IF Len(links) > 0
            THEN <<"- DiZhi/LianJie: "
                   \o join([i \in 1..Len(links) |->
                              "[" \o Get(links[i], "label").s \o "](" \o Get(links[i], "url").s \o ")"],
                           " / ")>>
            ELSE <<>>)
        \o (IF Truthy(Get(basic, "educationSummary")) /\ ~hasEducationModule(document)
               /\ Len(edu) > 0
            THEN <<"- JiaoYu: " \o edu>> ELSE <<>>)

\* The array `lines` of generateMarkdown at its return.
markdownLines(document, now) ==
    LET basic == Get(document, "basic")
        order == Get(Get(document, "site"), "order").a
    IN  <<"# " \o templateText(Get(basic, "name"))>>
        \o (IF Truthy(Get(basic, "position")) THEN <<"", "> " \o Get(basic, "position").s>> ELSE <<>>)
        \o <<"", "## JiBenXinXi">>
        \o baseInfoLines(document, now)
        \o flatten([i \in 1..Len(order) |-> moduleLines(document, order[i])])

\* generateMarkdown(config), called while new Date() gives `now`.
generateMarkdown(document, now) == join(markdownLines(document, now), "\n")

\* Raw documents for the view and the markdown export.
MdWorkPeriods ==
    {Absent,
     Obj(<< <<"start", Str("2019.01")>> >>),
     Obj(<< <<"start", Str("2019.01")>>, <<"end", Str("2021.06")>> >>),
     Obj(<< <<"start", Str("2019.01")>>, <<"end", Str("ZhiJin")>> >>),
     Obj(<< <<"start", Str("long ago")>>, <<"end", Str("x")>> >>)}

MdContacts ==
    {Absent,
     Obj(<< <<"phone", Str("138 0013 8000")>>, <<"wechat", Str("wx_alice")>>,
            <<"email", Str("alice@x.io")>> >>),
     Obj(<< <<"phone", Num(12345)>>, <<"wechat", Str("abcd")>>, <<"email", Str("nomail")>> >>)}

MdSummaries ==
    {Absent,
     Obj(<< <<"raw", Str("MIT <CS>")>> >>),
     Obj(<< <<"school", Str("MIT")>>, <<"degree", Str("BSc")>> >>),
     Obj(<<>>)}

MdEducationItem ==
    Obj(<< <<"school", Str("A")>>, <<"start", Num(2015)>>, <<"degree", Str("BSc")>>,
           <<"gpa", Str("3.9")>>,
           <<"courses", Arr(<<Obj(<< <<"name", Str("Algo")>>, <<"credit", Num(3)>> >>),
                              Str("OS")>>)>> >>)

MdEducations ==
    {Absent,
     Arr(<<MdEducationItem>>),
     Obj(<< <<"enabled", Bool(FALSE)>>, <<"items", Arr(<<MdEducationItem>>)>> >>)}

MdOrders == {Absent, Arr(<<Str("work"), Str("open-source"), Str("education")>>)}

\* The other modules: none, or all of them, one disabled.
MdModules ==
    {<<Absent, Absent, Absent, Absent, Absent, Absent>>,
     <<Obj(<< <<"listStyle", Str("ordered")>>, <<"items", Arr(<<Str("Go"), Str("Rust")>>)>> >>),
       Arr(<<Obj(<< <<"name", Str("P")>>, <<"time", Str("2020")>>, <<"description", Str("d")>>,
                    <<"responsibilities", Arr(<<Str("r1")>>)>>,
                    <<"techStack", Arr(<<Str("Go"), Str("C++")>>)>> >>)>>),
       Str(" me "),
       Arr(<<Obj(<< <<"company", Str("W")>>, <<"position", Str("dev")>>,
                    <<"achievements", Arr(<<Str("a1")>>)>> >>)>>),
       Obj(<< <<"enabled", Bool(FALSE)>>, <<"items", Arr(<<Str("Prize")>>)>> >>),
       Arr(<<Obj(<< <<"name", Str("lib")>>, <<"url", Str("https://x.io")>>,
                    <<"stars", Num(12)>> >>)>>)>>}

MdModernDocs ==
    {MkObj(<< <<"site", MkObj(<< <<"order", o>> >>)>>,
              <<"basic", MkObj(<< <<"name", Str("Ann")>>, <<"position", Str("dev")>>,
                                  <<"gender", Str("F")>>, <<"workPeriod", w>>,
                                  <<"contacts", c>>, <<"educationSummary", u>>,
                                  <<"addressLinks",
                                    Arr(<<Obj(<< <<"label", Str("web")>>,
                                                 <<"url", Str("https://a.io")>> >>)>>)>> >>)>>,
              <<"education", e>>, <<"skills", m[1]>>, <<"projects", m[2]>>,
              <<"profile", m[3]>>, <<"work", m[4]>>, <<"honors", m[5]>>,
              <<"openSource", m[6]>> >>) :
        o \in MdOrders, w \in MdWorkPeriods, c \in MdContacts, u \in MdSummaries,
        e \in MdEducations, m \in MdModules}

MdLegacyDocs ==
    {MkObj(<< <<"conf", LegacyConf>>, <<"basic", LegacyBasic>>, <<"skill", Arr(<<Str("Go")>>)>>,
              <<"exp", x>>, <<"workExperience", Arr(<<w>>)>> >>) :
        x \in {Absent, Arr(<<CHOOSE q \in LegacyProjects : Get(q, "name") = Str(" A ")>>)},
        w \in {q \in LegacyWorkItems : q.k = "object"}}

MarkdownDocs == MdModernDocs \cup MdLegacyDocs

\* What new Date() may give.
MarkdownDates == {<<2024, 0>>, <<2024, 5>>, <<2026, 10>>}

notMarkdownVars == <<pagingVars, orderVars, techVars, configVars, exportVars, loadVars>>

\* bootstrap has normalized a raw document.
InitMarkdown ==
    /\ mdConfig \in {normalizeConfig(r) : r \in MarkdownDocs}
    /\ mdFallbackHtml = <<>>
    /\ mdNow = <<0, 0>>
    /\ mdText = ""
    /\ mdNowAgain = <<0, 0>>
    /\ mdTextAgain = ""
    /\ mdPc = "call"
    /\ IdlePaging /\ IdleOrder /\ IdleTech /\ IdleConfig /\ IdleExport /\ IdleLoad

\* renderResumeContent evaluates renderBasicEducationSection(config).
RenderBasicEducationSection ==
    /\ mdPc = "call"
    /\ mdFallbackHtml' = renderBasicEducationSection(mdConfig)
    /\ mdPc' = "rendered"
    /\ UNCHANGED <<mdConfig, mdNow, mdText, mdNowAgain, mdTextAgain, notMarkdownVars>>

\* A click on the markdown button: generateMarkdown(config).
GenerateMarkdown ==
    /\ mdPc = "rendered"
    /\ \E now \in MarkdownDates :
          /\ mdNow' = now
          /\ mdText' = generateMarkdown(mdConfig, now)
    /\ mdPc' = "done"
    /\ UNCHANGED <<mdConfig, mdFallbackHtml, mdNowAgain, mdTextAgain, notMarkdownVars>>

\* A later click: generateMarkdown(config) once more, the clock not behind.
GenerateMarkdownAgain ==
    /\ mdPc = "done"
    /\ \E now \in MarkdownDates :
          /\ now[1] * 12 + now[2] >= mdNow[1] * 12 + mdNow[2]
          /\ mdNowAgain' = now
          /\ mdTextAgain' = generateMarkdown(mdConfig, now)
    /\ mdPc' = "again"
    /\ UNCHANGED <<mdConfig, mdFallbackHtml, mdNow, mdText, notMarkdownVars>>

NextMarkdown == RenderBasicEducationSection \/ GenerateMarkdown \/ GenerateMarkdownAgain

SpecMarkdown == InitMarkdown /\ [][NextMarkdown]_vars

Init == InitPaging \/ InitPagingFixture \/ InitOrder \/ InitTech \/ InitConfig \/ InitExport \/ InitLoad \/ InitMarkdown

Next == NextPaging \/ NextOrder \/ NextTech \/ NextConfig \/ NextExport \/ NextLoad \/ NextMarkdown

Spec == Init /\ [][Next]_vars

(***************************************************************************)
(* What the claims below speak of                                          *)
(***************************************************************************)

\* The seven canonical module identifiers, as values.
CanonicalKeys == {Str(DEFAULT_ORDER[i]) : i \in 1..Len(DEFAULT_ORDER)}

\* The canonical identifier the alias table itself maps a key to, if any.
CanonicalOf(key) ==
    IF Len(key) = 0 THEN Undefined
    ELSE aliasLookupOwnOnly(toLowerCase(removeChars(key, {"_", "-"} \cup Whitespace)))

RECURSIVE FirstSeen(_, _)
\* The canonical identifiers a list names, in first-seen order.
FirstSeen(keys, seen) ==
    IF Len(keys) = 0 THEN seen
    ELSE LET id == CanonicalOf(Head(keys))
         IN  IF id = Undefined \/ (\E i \in 1..Len(seen) : seen[i] = id)
             THEN FirstSeen(Tail(keys), seen)
             ELSE FirstSeen(Tail(keys), Append(seen, id))

\* The order the specification describes for a supplied list.
DescribedOrder(keys) ==
    LET named == FirstSeen(IF Len(keys) = 0 THEN DEFAULT_ORDER ELSE keys, <<>>)
        defaults == [i \in 1..Len(DEFAULT_ORDER) |-> Str(DEFAULT_ORDER[i])]
    IN  named \o SelectSeq(defaults, LAMBDA d : \A i \in 1..Len(named) : named[i] # d)

\* The raw root is a map.
RawIsMap == raw.k = "object"

\* The raw root has both marker keys of the legacy schema.
RawHasBothMarkers == "conf" \in OwnKeys(raw) /\ "basic" \in OwnKeys(raw)

\* The document normalization gives for an empty map.
AllDefaults == normalizeModernConfig(Obj(<<>>))

\* The sections that hold a list of items.
ListSections == ItemModules \cup {"skills"}

\* The list a module's entries are read from on the path the root selects.
EntriesRead(m) ==
    IF RawHasBothMarkers /\ m = "projects" THEN toArray(Get(raw, "exp"))
    ELSE IF RawHasBothMarkers /\ m = "work" THEN toArray(Get(raw, "workExperience"))
    ELSE itemsRawOf(Get(raw, m))

\* The identifying texts of the entries that have one, in order.
IdentifiedEntries(m) ==
    LET textOf(entry) == toStringValue(Get(asRecord(entry), KeyField[m]))
        kept == SelectSeq(EntriesRead(m), LAMBDA entry : Truthy(textOf(entry)))
    IN  [i \in 1..Len(kept) |-> textOf(kept[i])]

\* The identifying texts of the items of the normalized section, in order.
NormalizedEntries(m) ==
    IF Get(config, m) = Undefined THEN <<>>
    ELSE LET items == Get(Get(config, m), "items").a
         IN  [i \in 1..Len(items) |-> Get(items[i], KeyField[m])]

\* The positions of the separators in a string.
SeparatorsIn(s) == {i \in 1..Len(s) : Chr(s, i) \in PeriodSeparators}

(***************************************************************************)
(* Claims                                                                  *)
(***************************************************************************)

\* C1: for totalHeight > 0 the segments of getPagedCuts, in order, cover
\* [0, totalHeight) exactly: the first starts at 0, each later one starts
\* where the previous one ended, each has start < end, and once the planner
\* has returned the last one ends at totalHeight.
C1_PagedCutsCoverExactly ==
    (pagePc \in {"loop", "done"} /\ totalHeightPx > 0) =>
        /\ \A i \in 1..Len(segments) : segments[i][1] < segments[i][2]
        /\ Len(segments) >= 1 => segments[1][1] = 0
        /\ \A i \in 1..(Len(segments) - 1) : segments[i + 1][1] = segments[i][2]
        /\ pagePc = "loop" => cursor = (IF segments = <<>> THEN 0 ELSE segments[Len(segments)][2])
        /\ pagePc = "done" =>
              /\ Len(segments) >= 1
              /\ segments[Len(segments)][2] = totalHeightPx

\* A finished plan of at least three pages in which one page ends at a
\* content-block edge and another at the naive target.
C1_Witness ==
    /\ pagePc = "done"
    /\ Len(segments) >= 3
    /\ \E i \in 1..(Len(segments) - 1) :
          /\ segments[i][2] # segments[i][1] + pageHeightPx
          /\ \E j \in 1..Len(safeCuts) : safeCuts[j] = segments[i][2]
    /\ \E i \in 1..(Len(segments) - 1) : segments[i][2] = segments[i][1] + pageHeightPx

\* C2: for any input list normalizeOrder returns exactly 7 elements: each
\* of the 7 canonical module identifiers exactly once and nothing else.
C2_OrderIsPermutation ==
    orderPc = "done" =>
        /\ Len(orderOutput) = 7
        /\ {orderOutput[i] : i \in 1..Len(orderOutput)} = CanonicalKeys

\* C3: in every document normalizeConfig returns, a present item-list
\* section has at least one item and a present profile has non-empty
\* content; a section without valid entries is absent.
C3_PresentSectionsNonEmpty ==
    configPc = "returned" =>
        /\ \A m \in ListSections :
              Get(config, m) # Undefined => Len(Get(Get(config, m), "items").a) >= 1
        /\ Get(config, "profile") # Undefined => Truthy(Get(Get(config, "profile"), "content"))

\* C4: normalizeTechStack splits a delimiter-separated string at every run
\* of whitespace, comma, slash or pipe and discards empty tokens; for a list
\* it returns the list's non-empty elements as strings.
C4_TechStackSplit ==
    techPc = "done" =>
        /\ techInput.k = "string" =>
              techOutput = SelectSeq([i \in 1..Len(split(techInput.s, TechDelimiters, TRUE)) |->
                                         Str(split(techInput.s, TechDelimiters, TRUE)[i])], Truthy)
        /\ techInput.k = "array" => techOutput = toStringArray(techInput)

\* C5: normalizeConfig never throws, and a raw value that is not a map
\* (null, undefined, a scalar, a list) yields the all-defaults document.
C5_NeverThrows ==
    /\ configPc # "threw"
    /\ (configPc = "returned" /\ ~RawIsMap) => config = AllDefaults

\* C6: for a modern-shaped raw document, normalizing the output of
\* normalizeConfig again yields a document equal to it in every field.
C6_Idempotent ==
    (configPc = "again" /\ RawIsMap /\ ~RawHasBothMarkers) => configAgain = config

\* C7: normalizeConfig takes the legacy path exactly when the raw root has
\* both a conf key and a basic key, and the modern path in every other case.
C7_PathByMarkers ==
    configPc \in {"returned", "threw"} =>
        IF RawHasBothMarkers
        THEN config = normalizeLegacyConfig(raw)
        ELSE config = normalizeModernConfig(Nullish(raw, Obj(<<>>)))

\* C8: on the legacy path basic.name is basic.cnName, site.title is
\* conf.title, and basic.workPeriod holds the trimmed text before the
\* separator of basic.overall as start and the trimmed text after it as end.
C8_LegacyMapping ==
    (configPc = "returned" /\ RawHasBothMarkers) =>
        LET basicIn == asRecord(Get(raw, "basic"))
            overall == Get(basicIn, "overall")
            period == Get(Get(config, "basic"), "workPeriod")
        IN  /\ Get(basicIn, "cnName").k = "string" =>
                  Get(Get(config, "basic"), "name") = Str(trim(Get(basicIn, "cnName").s))
            /\ Get(asRecord(Get(raw, "conf")), "title").k = "string" =>
                  Get(Get(config, "site"), "title")
                      = Str(trim(Get(asRecord(Get(raw, "conf")), "title").s))
            /\ (overall.k = "string" /\ SeparatorsIn(overall.s) # {} /\ period # Undefined) =>
                  \E i \in SeparatorsIn(overall.s) :
                      /\ Get(period, "start") = Str(trim(SubSeq(overall.s, 1, i - 1)))
                      /\ Get(period, "end") = Str(trim(SubSeq(overall.s, i + 1, Len(overall.s))))

\* C9: for each item-list module, on either schema path, the items of the
\* normalized section are exactly the input entries whose identifying field
\* is non-empty text, in their order, and the section is absent when no
\* entry is left.
C9_EntriesKeptOrDropped ==
    (configPc = "returned" /\ RawIsMap) =>
        \A m \in ItemModules :
            /\ NormalizedEntries(m) = IdentifiedEntries(m)
            /\ Len(IdentifiedEntries(m)) = 0 => Get(config, m) = Undefined

\* C10: normalizeOrder returns the canonical identifiers the supplied list
\* names (the default list when it is empty), in first-seen order without
\* duplicates, followed by the missing ones in the default's order.
C10_OrderIsNamedThenDefaults ==
    orderPc = "done" => orderOutput = DescribedOrder(orderInput)

\* C11: normalizeModuleKey strips underscores, hyphens and whitespace,
\* lowercases, and returns the identifier the alias table's own entries map
\* the cleaned key to; every other key (the empty string and inherited names
\* such as "constructor" included) gives absent, so that nothing but the
\* canonical identifiers ever enters the resolved order.
C11_UnknownKeysAreAbsent ==
    orderPc = "done" =>
        /\ \A i \in 1..Len(orderInput) :
              normalizeModuleKey(orderInput[i]) = CanonicalOf(orderInput[i])
        /\ \A i \in 1..Len(orderOutput) : orderOutput[i] \in CanonicalKeys

\* C12 as stated: whenever totalHeight <= pageHeight, getPagedCuts returns
\* exactly one segment, [0, totalHeight).
C12_SinglePageAsStated ==
    (pagePc = "done" /\ totalHeightPx <= pageHeightPx) =>
        segments = << <<0, totalHeightPx>> >>

\* C12 as amended: whenever 0 < totalHeight <= pageHeight, getPagedCuts
\* returns exactly one segment, [0, totalHeight); for totalHeight = 0 it
\* returns no segment.
C12_SinglePage ==
    (pagePc = "done" /\ totalHeightPx <= pageHeightPx) =>
        IF totalHeightPx > 0 THEN segments = << <<0, totalHeightPx>> >>
        ELSE segments = <<>>

\* A returned plan for a document exactly one page high.
C12_Witness ==
    /\ pagePc = "done"
    /\ totalHeightPx > 0
    /\ totalHeightPx = pageHeightPx
    /\ Len(segments) = 1

\* C13 as stated: with safe cuts {0, 400, 820, 1500}, pageHeight 800 and
\* minSegment 440 the first segment is [0, 820).
C13_FirstCutAsStated ==
    (/\ pagePc \in {"loop", "done"}
     /\ safeCuts = <<0, 400, 820, 1500>>
     /\ pageHeightPx = 800
     /\ Len(segments) >= 1) => segments[1] = <<0, 820>>

\* C13 as amended: with safe cuts {0, 400, 820, 1500}, pageHeight 800 and
\* minSegment 440 no safe cut lies in [440, 800], so the first cut lands at
\* the naive target: the first segment is [0, 800).
C13_FirstCutAtNaiveTarget ==
    (/\ pagePc \in {"loop", "done"}
     /\ safeCuts = <<0, 400, 820, 1500>>
     /\ pageHeightPx = 800
     /\ Len(segments) >= 1) => segments[1] = <<0, 800>>

\* The planner has made its first cut on the fixture.
C13_Witness ==
    /\ pagePc = "loop"
    /\ totalHeightPx = 1500
    /\ safeCuts = <<0, 400, 820, 1500>>
    /\ pageHeightPx = 800
    /\ minimumSegmentPx(pageHeightPx) = 440
    /\ Len(segments) = 1

\* C20: every non-final segment ends at the largest safe cut c with
\* cursor + floor(0.55 * pageHeight) <= c <= cursor + pageHeight, provided
\* c is more than 80 px past the cursor, and otherwise at the naive target
\* cursor + pageHeight; so it ends at a safe cut or at the naive target.
C20_CutAtLargestSafeOffset ==
    \A i \in 1..Len(segments) :
        (i < Len(segments) \/ pagePc = "loop") =>
            LET start == segments[i][1]
                target == start + pageHeightPx
                inRange == {c \in {safeCuts[j] : j \in 1..Len(safeCuts)} :
                              /\ start + ((pageHeightPx * 55) \div 100) <= c
                              /\ c <= target}
                largest == CHOOSE c \in inRange : \A d \in inRange : d <= c
            IN  /\ segments[i][2] =
                      IF inRange # {} /\ largest > start + 80 THEN largest ELSE target
                /\ segments[i][2] \in {safeCuts[j] : j \in 1..Len(safeCuts)} \cup {target}

\* A non-final segment that ends at a safe cut lying exactly at the naive
\* target, with another safe cut inside the admissible range before it.
C20_Witness ==
    /\ pagePc \in {"loop", "done"}
    /\ Len(segments) >= 2
    /\ segments[1][2] = pageHeightPx
    /\ \E j \in 1..Len(safeCuts) : safeCuts[j] = pageHeightPx
    /\ \E j \in 1..Len(safeCuts) :
          /\ safeCuts[j] >= minimumSegmentPx(pageHeightPx)
          /\ safeCuts[j] < pageHeightPx

\* C14: an export that has settled, by success or by a failure at any step,
\* has its host detached, whatever the interleaving of overlapping exports;
\* so no host is attached when no export is in progress.
C14_HostRemovedOnEveryExit ==
    /\ \A e \in Exports : exportPc[e] = "settled" => e \notin exportHosts
    /\ \A e \in Exports : exportPc[e] = "idle" => e \notin exportHosts
    /\ (\A e \in Exports : exportPc[e] \in {"idle", "settled"}) => exportHosts = {}

\* Two exports that ran overlapped have settled, one saved its PDF and the
\* other failed after rasterization had started.
C14_Witness ==
    /\ \A e \in Exports : exportPc[e] = "settled"
    /\ Len(toasts) >= 2 /\ toasts[1] = ToastGenerating /\ toasts[2] = ToastGenerating
    /\ \E e \in Exports : exportResult[e] = "resolved"
    /\ \E e \in Exports :
          /\ exportResult[e] = "rejected"
          /\ \E i \in 1..Len(exportLog[e]) : exportLog[e][i] = "frame"

\* C15: with a config path in the query, loadConfig tries the path verbatim
\* and then the path under the base path; a candidate that cannot be
\* fetched or whose body is blank is passed over and the next one tried,
\* the first fetchable non-blank candidate supplies the configuration, and
\* only when no candidate qualifies does loading fail, with the descriptive
\* error and never with the embedded default.
C15_CandidatesTriedInOrder ==
    (loadPc \in {"fetch", "returned", "threw"} /\ Truthy(fromQueryOf(loadQuery))) =>
        LET fromQuery == trim(loadQuery.s)
            expected == candidatesOf(fromQuery, loadBase)
            n == Len(loadTried)
        IN  /\ n <= Len(expected)
            /\ \A i \in 1..n : loadTried[i][1] = expected[i]
            /\ \A i \in 1..(n - 1) : loadTried[i][2] # "document"
            /\ loadPc = "fetch" => \A i \in 1..n : loadTried[i][2] # "document"
            /\ loadPc = "returned" =>
                  /\ n >= 1
                  /\ loadTried[n][2] = "document"
                  /\ loadResult = parseYaml(loadTried[n][3])
            /\ loadPc = "threw" =>
                  /\ n = Len(expected)
                  /\ \A i \in 1..n : loadTried[i][2] # "document"
                  /\ loadResult = ErrorOf(NotFoundMessage \o fromQuery)

\* The theme color the raw document configures: conf.mainThemeColor on the
\* legacy path, site.themeColor otherwise.
ConfiguredColor ==
    IF RawHasBothMarkers THEN Get(asRecord(Get(raw, "conf")), "mainThemeColor")
    ELSE Get(asRecord(Get(raw, "site")), "themeColor")

\* C17: in every returned document site.themeColor begins with '#'; it is
\* '#111111' when the configured color is absent, neither string nor number,
\* or blank; a value already starting with '#' is kept (trimmed) and any
\* other value gets a single '#' prepended.
C17_ThemeColorHasHash ==
    configPc = "returned" =>
        LET color == Get(Get(config, "site"), "themeColor")
            text == IF ConfiguredColor.k = "string" THEN trim(ConfiguredColor.s)
                    ELSE numberToString(ConfiguredColor.n)
        IN  /\ color.k = "string"
            /\ Len(color.s) >= 1 /\ Chr(color.s, 1) = "#"
            /\ IF ConfiguredColor.k \notin {"string", "number"} THEN color.s = "#111111"
               ELSE IF Len(text) = 0 THEN color.s = "#111111"
               ELSE IF Chr(text, 1) = "#" THEN color.s = text
               ELSE color.s = "#" \o text

\* A legacy document whose color is written with its '#' and with blanks
\* around it has been normalized.
C17_Witness ==
    /\ configPc = "returned"
    /\ RawHasBothMarkers
    /\ ConfiguredColor = Str(" #fff ")
    /\ Get(Get(config, "site"), "themeColor") = Str("#fff")

\* The positions of the first markdown text at which a line starts.
LineStarts == {i \in 1..Len(mdText) : i = 1 \/ Chr(mdText, i - 1) = "\n"}

\* The line of the text that starts at position i.
LineAt(i) ==
    LET ends == {j \in i..(Len(mdText) + 1) : j = Len(mdText) + 1 \/ Chr(mdText, j) = "\n"}
        stop == CHOOSE j \in ends : \A k \in ends : j <= k
    IN  SubSeq(mdText, i, stop - 1)

\* The text has the given words at position i.
HasAt(i, words) ==
    i + Len(words) - 1 <= Len(mdText) /\ SubSeq(mdText, i, i + Len(words) - 1) = words

\* A line of the text begins with the given words.
SomeLineBegins(prefix) == \E i \in LineStarts : HasAt(i, prefix)

\* C16: for every canonical document in which an education section is
\* present, neither the HTML view nor the markdown export emits the
\* basic.educationSummary fallback.
C16_FallbackOnlyWithoutEducationSection ==
    (mdPc \in {"done", "again"} /\ Truthy(Get(mdConfig, "education"))) =>
        /\ mdFallbackHtml = <<>>
        /\ ~SomeLineBegins("- JiaoYu: ")

\* A configured contact is displayed in full: its line is the label and the
\* value, followed by nothing or by the link in parentheses.
ContactShownInFull(label, value) ==
    Truthy(value) =>
        \E i \in LineStarts :
            \/ LineAt(i) = label \o value.s
            \/ HasAt(i, label \o value.s \o " ([")

\* C18: for every canonical document the markdown text displays each
\* configured contact (phone, wechat, email) with its full original value,
\* not a masked form.
C18_ContactsShownUnmasked ==
    mdPc \in {"done", "again"} =>
        LET contacts == Get(Get(mdConfig, "basic"), "contacts")
        IN  /\ ContactShownInFull("- DianHua: ", Get(contacts, "phone"))
            /\ ContactShownInFull("- WeiXin: ", Get(contacts, "wechat"))
            /\ ContactShownInFull("- YouXiang: ", Get(contacts, "email"))

\* The module is absent from the document or disabled.
ModuleOmitted(moduleKey) ==
    LET sect == Get(mdConfig, moduleKey.s)
    IN  ~Truthy(sect) \/ Get(sect, "enabled") # Bool(TRUE)

\* The module has nothing to list: no item, or no content for the profile.
ModuleEmpty(moduleKey) ==
    LET sect == Get(mdConfig, moduleKey.s)
    IN  IF moduleKey = Str("profile") THEN ~Truthy(Get(sect, "content"))
        ELSE Len(Get(sect, "items").a) = 0

\* The headings of the module sections, in the order of the text.
ModuleHeadings ==
    LET starts == {i \in LineStarts : HasAt(i, "## ")}
        nth(n) == CHOOSE i \in starts : Cardinality({j \in starts : j < i}) = n - 1
    IN  Tail([n \in 1..Cardinality(starts) |-> LineAt(nth(n))])

\* The headings site.order asks for; a module with nothing to list has no
\* section in the view and none here.
OrderedHeadings ==
    LET order == Get(Get(mdConfig, "site"), "order").a
        kept == SelectSeq(order, LAMBDA k : ~ModuleOmitted(k) /\ ~ModuleEmpty(k))
    IN  [i \in 1..Len(kept) |->
            "## " \o Get(Get(Get(mdConfig, "site"), "moduleTitles"), kept[i].s).s]

\* C19: two invocations of generateMarkdown on equal documents return
\* identical text whatever the current date at each invocation, and the
\* module sections appear in the order of site.order, the disabled and the
\* absent modules omitted.
C19_MarkdownDeterministic ==
    /\ mdPc = "again" => mdTextAgain = mdText
    /\ mdPc \in {"done", "again"} => ModuleHeadings = OrderedHeadings

\* The text a raw value supplies: a string gives its trimmed text, a number
\* its decimal text, anything else supplies nothing.
SuppliedText(v) ==
    IF v.k = "string" THEN Str(trim(v.s))
    ELSE IF v.k = "number" THEN Str(numberToString(v.n))
    ELSE Undefined

\* C21: on the legacy path each contact channel has the value of its primary
\* key when that key supplies one, otherwise the value of its alias key, and
\* is absent only when neither key supplies a value.
C21_LegacyContactAliases ==
    (configPc = "returned" /\ RawHasBothMarkers) =>
        \A c \in ContactKeys :
            LET basicLegacy == asRecord(Get(raw, "basic"))
                primary == SuppliedText(Get(basicLegacy, c[1]))
                alias == SuppliedText(Get(basicLegacy, c[2]))
                channel == Get(Get(Get(config, "basic"), "contacts"), c[1])
            IN  /\ primary # Undefined => channel = primary
                /\ (primary = Undefined /\ alias # Undefined) => channel = alias
                /\ channel = Undefined <=> (primary = Undefined /\ alias = Undefined)

\* A legacy document whose wechat key holds no text and whose wechatText
\* does has been normalized, the channel taking the alias; the phone has
\* both keys and keeps the primary.
C21_Witness ==
    /\ configPc = "returned"
    /\ RawHasBothMarkers
    /\ Get(Get(raw, "basic"), "wechat") = Bool(TRUE)
    /\ Get(Get(raw, "basic"), "wechatText") = Str(" alt ")
    /\ Get(Get(Get(config, "basic"), "contacts"), "wechat") = Str("alt")
    /\ Get(Get(Get(config, "basic"), "contacts"), "phone") = Str("123")

\* The entries of the exp list that have a name, in order.
NamedLegacyProjects ==
    SelectSeq(toArray(Get(raw, "exp")),
              LAMBDA entry : Truthy(SuppliedText(Get(asRecord(entry), "name"))))

\* C22: on the legacy path each project comes from an entry of the exp list,
\* and its time is the entry's role text without the label prefix when the
\* role begins with it; a role that does not begin with the prefix, also one
\* that has the label text later, is the time unchanged.
C22_LegacyRolePrefixStripped ==
    (configPc = "returned" /\ RawHasBothMarkers) =>
        LET projects == Get(config, "projects")
            items == IF projects = Undefined THEN <<>> ELSE Get(projects, "items").a
        IN  /\ Len(items) = Len(NamedLegacyProjects)
            /\ \A i \in 1..Len(items) :
                  LET role == SuppliedText(Get(asRecord(NamedLegacyProjects[i]), "role"))
                      time == Get(items[i], "time")
                  IN  IF role = Undefined THEN time = Undefined
                      ELSE IF startsWith(role.s, LegacyRoleLabel)
                      THEN time = Str(SubSeq(role.s, Len(LegacyRoleLabel) + 1, Len(role.s)))
                      ELSE time = role

\* The steps of an export that runs to the end with n segments.
FullExportLog(n) ==
    <<"fonts", "frame", "raster">> \o [i \in 1..n |-> "page" \o natToString(i)] \o <<"save">>

\* C23: in every run of exportResumePdf rasterization starts only after
\* font loading has completed and one frame has then passed, slicing and
\* page assembly start only after rasterization has completed, the pages
\* are added in segment order, and the PDF is saved exactly once, after the
\* page of the last segment.
C23_ExportStepsInOrder ==
    \A e \in Exports :
        /\ \E n \in 0..MaxExportPages :
              /\ Len(exportLog[e]) <= Len(FullExportLog(n))
              /\ exportLog[e] = SubSeq(FullExportLog(n), 1, Len(exportLog[e]))
        /\ exportPc[e] = "raster" => exportLog[e] = <<"fonts", "frame">>
        /\ exportResult[e] = "resolved" =>
              \E n \in 0..MaxExportPages : exportLog[e] = FullExportLog(n)

\* An export of two pages has been saved while the other invocation is
\* still waiting for its fonts.
C23_Witness ==
    \E e, f \in Exports :
        /\ exportResult[e] = "resolved"
        /\ exportLog[e] = <<"fonts", "frame", "raster", "page1", "page2", "save">>
        /\ exportPc[f] = "fonts"

\* How often the handler has shown a message.
TimesShown(message) == Cardinality({i \in 1..Len(toasts) : toasts[i] = message})

\* The invocations that have ended one way.
ExportsWith(result) == {e \in Exports : exportResult[e] = result}

\* A failed export has saved nothing, has left no host in the document, and
\* the handler has shown the failure message for it and not the completion
\* message; every invocation was started by a click.
FailedExportIsAborted ==
    /\ \A e \in ExportsWith("rejected") :
          /\ exportPc[e] = "settled"
          /\ \A i \in 1..Len(exportLog[e]) : exportLog[e][i] # "save"
          /\ e \notin exportHosts
    /\ TimesShown(ToastFailed) = Cardinality(ExportsWith("rejected"))
    /\ TimesShown(ToastDone) = Cardinality(ExportsWith("resolved"))
    /\ TimesShown(ToastGenerating) = Cardinality({e \in Exports : exportPc[e] # "idle"})

\* After the failure no step of that export runs and it is not started again.
FailedExportStaysAborted ==
    \A e \in ExportsWith("rejected") :
        /\ exportPc'[e] = "settled"
        /\ exportResult'[e] = "rejected"
        /\ exportLog'[e] = exportLog[e]

\* C24: if a step of a PDF export fails the export is aborted: no later
\* step of it runs, no PDF is saved, the click handler shows the failure
\* notification and never the completion notification for it, the document
\* is left as it was, and nothing starts the export again.
C24_FailedExportAborts == []FailedExportIsAborted /\ [][FailedExportStaysAborted]_vars

\* One export failed while rasterizing and the other after adding a page;
\* the handler has shown two progress and two failure messages.
C24_Witness ==
    /\ \E e, f \in Exports :
          /\ e # f
          /\ exportResult[e] = "rejected" /\ exportLog[e] = <<"fonts", "frame">>
          /\ exportResult[f] = "rejected" /\ exportLog[f] = <<"fonts", "frame", "raster", "page1">>
    /\ TimesShown(ToastFailed) = 2
    /\ TimesShown(ToastDone) = 0

\* An iteration that does not emit the final segment moves the cursor up.
CursorAdvances == (pagePc = "loop" /\ pagePc' = "loop") => cursor' > cursor

\* C25: for any totalHeight, any pageHeight >= 1 and any set of safe cuts
\* the loop of getPagedCuts terminates: the cursor strictly increases on
\* every iteration that does not emit the final segment, also when
\* floor(0.55 * pageHeight) is 0 and a safe cut equals the cursor.
C25_PlannerTerminates == <>(pagePc = "done") /\ [][CursorAdvances]_vars

\* The planner has returned for a page height of 1, where the lower limit
\* of the window is the cursor itself: one segment per pixel.
C25_Witness ==
    /\ pagePc = "done"
    /\ pageHeightPx = 1
    /\ totalHeightPx > 0
    /\ Len(segments) = totalHeightPx
    /\ minimumSegmentPx(pageHeightPx) = 0

\* The height of the i-th segment.
SegmentHeight(i) == segments[i][2] - segments[i][1]

\* The i-th segment is not the final one of the plan.
NonFinalSegment(i) == i < Len(segments) \/ pagePc = "loop"

\* C26: every segment getPagedCuts returns is at most pageHeight high, and
\* every segment other than the final one is at least floor(0.55 *
\* pageHeight) high; only the final segment may be shorter.
C26_SegmentHeightsBounded ==
    \A i \in 1..Len(segments) :
        /\ SegmentHeight(i) <= pageHeightPx
        /\ NonFinalSegment(i) => SegmentHeight(i) >= (55 * pageHeightPx) \div 100

\* A finished plan with a page shrunk to a content-block edge, higher than
\* the lower bound and lower than a full page, and a final page below the
\* lower bound.
C26_Witness ==
    /\ pagePc = "done"
    /\ Len(segments) >= 2
    /\ \E i \in 1..(Len(segments) - 1) :
          /\ SegmentHeight(i) < pageHeightPx
          /\ SegmentHeight(i) > (55 * pageHeightPx) \div 100
    /\ SegmentHeight(Len(segments)) < (55 * pageHeightPx) \div 100

=============================================================================
